---- MODULE Spec2Model ----
(***************************************************************************)
(* Model of the subscription auditor: the six collectors of the audit      *)
(* pipeline (vm_reader, storage_reader, network_reader, rg_reader,         *)
(* subscription_resources, governance_security_cost_reader), the           *)
(* orchestrator run_audit (audit_runner.py), the POST /run handler with    *)
(* its background worker and the GET /run/<run_id> poller (app.py), the    *)
(* monthly cost window and the retry wrapper.                              *)
(*                                                                         *)
(* The specifications of the module share its variables:                   *)
(*   Spec          one run of the /run pipeline with a concurrent poller   *)
(*   SpecCollector one collector invocation under failing API calls        *)
(*   SpecCost      _try_cost_last_5_months over bounded query outcomes     *)
(*   SpecRetry     _retry over every sequence of call outcomes             *)
(*   SpecCaps      the capped collectors over every estate size and cap    *)
(*   SpecExposure  the exposure label of a storage account row             *)
(*   SpecTopTypes  _top_types over every bounded list of resource types    *)
(*   SpecInventory audit_subscription_resources and its fallback           *)
(*   SpecTwoRuns   two runs accepted and executing concurrently            *)
(*   SpecRender    the report body over every shape of its inputs          *)
(*   SpecLive      Spec with a failing write in the except clause, fair    *)
(*   SpecParse     _parse_monthly_rows over bounded rows of cell values    *)
(*   SpecStorage   get_storage_details over every bounded account list     *)
(***************************************************************************)
EXTENDS Integers, Sequences, FiniteSets, TLC

VARIABLES
    files,      \* run -> file name -> content of the run directory
    pc,         \* run -> position of the request handler / worker thread
    req,        \* run -> the POST /run request and its HTTP response
    faulty,     \* run -> the call sites that raise during this run
    locals,     \* run -> local variables of _worker and run_audit
    clock,      \* the wall clock read by _utc_now()
    hist,       \* run -> every completed _write_json(status_path, ...) in order
    poll,       \* the GET /run/<run_id> handler in flight and its last response
    cc,         \* SpecCollector: the collector invocation under test
    cost,       \* SpecCost: inputs and output of _try_cost_last_5_months
    rt,         \* SpecRetry: the state of one _retry execution
    ai_globals  \* the module globals of ai_analyzer: client, deployment

runVars == <<files, pc, req, faulty, locals, clock, hist, poll, ai_globals>>
vars == <<files, pc, req, faulty, locals, clock, hist, poll, cc, cost, rt, ai_globals>>

(***************************************************************************)
(* Bounds                                                                  *)
(***************************************************************************)
MaxFaults == 1          \* call sites that raise during one run
MaxFailingCalls == 2    \* API calls that raise during one collector invocation
MaxClock == 2           \* ticks of the wall clock
MaxRows == 2            \* rows of a cost query response

Min(a, b) == IF a < b THEN a ELSE b

(***************************************************************************)
(* Outcome of a Python call: a returned value or a raised exception.       *)
(***************************************************************************)
NoValue == [novalue |-> TRUE]
Return(v) == [raised |-> FALSE, error |-> "", value |-> v]
Raise(e) == [raised |-> TRUE, error |-> e, value |-> NoValue]

(***************************************************************************)
(* Text.  Python strings that the code indexes, slices or searches are     *)
(* sequences of one-character strings.                                     *)
(***************************************************************************)
Digits == << "0", "1", "2", "3", "4", "5", "6", "7", "8", "9" >>
IsDigit(c) == \E d \in 1..10 : Digits[d] = c
DigitVal(c) == (CHOOSE d \in 1..10 : Digits[d] = c) - 1

\* str(n) for a non-negative int
RECURSIVE IntToStr(_)
IntToStr(n) ==
    IF n < 10 THEN << Digits[n + 1] >>
    ELSE IntToStr(n \div 10) \o << Digits[(n % 10) + 1] >>

\* int(s) for a string of digits
RECURSIVE StrToInt(_)
StrToInt(s) ==
    IF s = << >> THEN 0
    ELSE 10 * StrToInt(SubSeq(s, 1, Len(s) - 1)) + DigitVal(s[Len(s)])

\* s.isdigit()
IsDigitStr(s) == Len(s) > 0 /\ \A i \in 1..Len(s) : IsDigit(s[i])

\* f"{m:02d}"
Pad2(m) == IF m < 10 THEN << "0" >> \o IntToStr(m) ELSE IntToStr(m)

\* s.replace(a, b) for single characters
ReplaceChar(s, a, b) == [ i \in 1..Len(s) |-> IF s[i] = a THEN b ELSE s[i] ]

UpperChars == << "A","B","C","D","E","F","G","H","I","J","K","L","M",
                 "N","O","P","Q","R","S","T","U","V","W","X","Y","Z" >>
LowerChars == << "a","b","c","d","e","f","g","h","i","j","k","l","m",
                 "n","o","p","q","r","s","t","u","v","w","x","y","z" >>
LowerChar(c) ==
    IF \E k \in 1..26 : UpperChars[k] = c
    THEN LowerChars[CHOOSE k \in 1..26 : UpperChars[k] = c]
    ELSE c
\* s.lower()
Lower(s) == [ i \in 1..Len(s) |-> LowerChar(s[i]) ]

\* sub in s
Contains(sub, s) ==
    \E k \in 0..(Len(s) - Len(sub)) : SubSeq(s, k + 1, k + Len(sub)) = sub

\* Python values whose type the code tests: str, int, float (in thousandths), None, bool
StrV(chars) == [t |-> "str", s |-> chars]
IntV(n) == [t |-> "int", n |-> n]
FloatV(milli) == [t |-> "float", n |-> milli]
NoneV == [t |-> "none"]
BoolV(b) == [t |-> "bool", b |-> b]

PyNone == [none |-> TRUE]

\* the words the storage code compares against, in the spellings a row can hold
W_Disabled == << "D", "i", "s", "a", "b", "l", "e", "d" >>
W_disabled == << "d", "i", "s", "a", "b", "l", "e", "d" >>
W_DISABLED == << "D", "I", "S", "A", "B", "L", "E", "D" >>
W_Enabled == << "E", "n", "a", "b", "l", "e", "d" >>
W_Secured == << "S", "e", "c", "u", "r", "e", "d", "B", "y", "P", "e", "r", "i", "m", "e", "t", "e", "r" >>
W_Deny == << "D", "e", "n", "y" >>
W_deny == << "d", "e", "n", "y" >>
W_DENY == << "D", "E", "N", "Y" >>
W_Allow == << "A", "l", "l", "o", "w" >>
W_allow == << "a", "l", "l", "o", "w" >>
W_None == << "N", "o", "n", "e" >>

\* str(v)
py_str(v) == IF v = NoneV THEN W_None ELSE v.s

\* a.get(key, "")
GetOrEmpty(a, key) == IF key \in DOMAIN a THEN a[key] ELSE StrV(<< >>)

(***************************************************************************)
(* The subscription the collectors query: a small non-empty estate, so     *)
(* that every per-resource API call of every collector is made.            *)
(***************************************************************************)
Estate ==
    [ arg_rows  |-> << [type |-> "microsoft.compute/virtualmachines", count |-> 2] >>,
      resources |-> << [type |-> StrV(<< "C", "o", "m", "p", "u", "t", "e", "/", "v", "m" >>),
                        name |-> "vm1"],
                       [type |-> StrV(<< "S", "t", "o", "r", "a", "g", "e", "/", "s", "a" >>),
                        name |-> "sa1"] >>,
      vms       |-> << [name |-> "vm1", power |-> "Running"],
                       [name |-> "vm2", power |-> "Deallocated"] >>,
      disks     |-> << [name |-> "d1", managed_by |-> "vm1"],
                       [name |-> "d2", managed_by |-> ""] >>,
      vmss      |-> 1,
      accounts  |-> << [name |-> "sa1", public_network_access |-> StrV(W_Disabled),
                        default_action |-> StrV(W_Deny), versioning |-> TRUE, used |-> 7] >>,
      vnets     |-> << [name |-> "vnet1", peerings |-> 1, subnets |-> 2] >>,
      nsgs      |-> 2,
      gateways  |-> 1,
      groups    |-> << [name |-> "rg1", resources |-> 3],
                       [name |-> "rg2", resources |-> 1] >>,
      sub_name  |-> "Prod",
      mg_path   |-> << "Root", "Landing" >>,
      policies  |-> 3,
      score     |-> 55,
      alerts    |-> 4,
      this_month |-> [year |-> 2026, month |-> 5],
      cost_rows |-> << [month |-> << "2", "0", "2", "6", "-", "0", "4" >>, cost |-> 12344] >> ]

(***************************************************************************)
(* API calls of each collector, in the order the collector makes them.     *)
(***************************************************************************)
InventoryCalls == << "arg.resources", "arm.resources.list" >>
VmCalls == << "vm.list_all", "vm.instance_view", "vm.disks.list", "vm.vmss.list_all" >>
StorageCalls == << "st.accounts.list", "st.get_properties", "st.blob_props", "st.metrics" >>
NetworkCalls ==
    << "net.nsgs", "net.route_tables", "net.app_gateways", "net.load_balancers",
       "net.public_ips", "net.firewalls", "net.gateways", "net.er_circuits",
       "net.priv_dns", "net.priv_dns_links", "net.private_eps", "net.vnets",
       "net.peerings", "net.subnets" >>
RgCalls == << "rg.list", "rg.list_by_rg" >>
GscCalls ==
    << "gsc.sub_get", "gsc.mg_graph", "gsc.policy_list", "gsc.cost_query",
       "gsc.pricings", "gsc.secure_scores", "gsc.alerts" >>

Range(s) == { s[i] : i \in 1..Len(s) }

\* The text of the exception a failing API call raises (opaque to the code).
ApiError(call) == call

(***************************************************************************)
(* subscription_resources.py                                               *)
(***************************************************************************)
\* _query_arm: one row per type met in rm.resources.list(), with its count.
RECURSIVE CountType(_, _)
CountType(res, t) ==
    IF res = << >> THEN 0
    ELSE (IF Head(res).type = t THEN 1 ELSE 0) + CountType(Tail(res), t)

RECURSIVE SamplesOf(_, _, _)
SamplesOf(res, t, sample_size) ==
    IF res = << >> \/ sample_size <= 0 THEN << >>
    ELSE IF Head(res).type = t
         THEN << Head(res).name >> \o SamplesOf(Tail(res), t, sample_size - 1)
         ELSE SamplesOf(Tail(res), t, sample_size)

RECURSIVE TypesInOrder(_, _)
TypesInOrder(res, seen) ==
    IF res = << >> THEN << >>
    ELSE IF Head(res).type \in seen THEN TypesInOrder(Tail(res), seen)
         ELSE << Head(res).type >> \o TypesInOrder(Tail(res), seen \cup {Head(res).type})

\* list.sort(key=count, reverse=True): stable insertion by descending count
RECURSIVE InsertByCount(_, _)
InsertByCount(row, sorted) ==
    IF sorted = << >> THEN << row >>
    ELSE IF Head(sorted).count >= row.count
         THEN << Head(sorted) >> \o InsertByCount(row, Tail(sorted))
         ELSE << row >> \o sorted

RECURSIVE SortByCountDesc(_)
SortByCountDesc(rows) ==
    IF rows = << >> THEN << >>
    ELSE InsertByCount(rows[Len(rows)], SortByCountDesc(SubSeq(rows, 1, Len(rows) - 1)))

\* a variant of rtype_of that keeps the case of the type
rtype_of_as_is(r) == IF r.type = NoneV THEN << >> ELSE r.type.s

\* rtype = (res.type or "").lower()
rtype_of(r) == IF r.type = NoneV THEN << >> ELSE Lower(r.type.s)

_query_arm(listing, sample_size) ==
    LET res == [ i \in 1..Len(listing) |->
                   [type |-> rtype_of(listing[i]), name |-> listing[i].name] ]
        ts == TypesInOrder(res, {})
    IN  SortByCountDesc([ i \in 1..Len(ts) |->
            [type |-> ts[i], count |-> CountType(res, ts[i]),
             sampleNames |-> SamplesOf(res, ts[i], sample_size)] ])

\* a variant of FallbackNeeded that always runs the ARM enumeration
FallbackNeeded_always(rows) == TRUE

\* if not rows: (the fallback to _query_arm)
FallbackNeeded(rows) == rows = << >>

audit_subscription_resources(est, sample_size, fails) ==
    LET arg == IF "arg.resources" \in fails THEN << >> ELSE est.arg_rows
        rows == IF ~FallbackNeeded(arg) THEN arg
                ELSE IF "arm.resources.list" \in fails THEN << >>
                ELSE _query_arm(est.resources, sample_size)
    IN  Return(rows)

(***************************************************************************)
(* vm_reader.py                                                            *)
(***************************************************************************)
\* a variant of VmRowCount whose loop has no break
VmRowCount_uncapped(total, max_vms) == total

\* the rows built by "for i, vm in enumerate(all_vms_list): if i >= max_vms: break"
VmRowCount(total, max_vms) == Min(total, max_vms)

get_vm_details(est, max_vms, fails) ==
    IF "vm.list_all" \in fails THEN Raise(ApiError("vm.list_all"))
    ELSE
    LET all_vms_list == est.vms
        n == VmRowCount(Len(all_vms_list), max_vms)
        vms == [ i \in 1..n |->
                   [name |-> all_vms_list[i].name,
                    power |-> IF "vm.instance_view" \in fails THEN "Unknown"
                              ELSE all_vms_list[i].power] ]
        unattached == Cardinality({ i \in 1..Len(est.disks) : est.disks[i].managed_by = "" })
    IN  IF "vm.disks.list" \in fails THEN Raise(ApiError("vm.disks.list"))
        ELSE Return(
            [summary |-> [total_vms_all |-> Len(all_vms_list), total_vms |-> Len(vms)],
             vms |-> vms,
             disk_summary |-> [total_disks |-> Len(est.disks), unattached_disks |-> unattached],
             vmss_summary |-> [count |-> IF "vm.vmss.list_all" \in fails THEN 0 ELSE est.vmss]])

(***************************************************************************)
(* storage_reader.py                                                       *)
(***************************************************************************)
\* if str(public_network_access).lower() != "disabled"
\*    or str(network_default_action).lower() == "allow": public_allowed += 1
CountsAsPublic(pna, nda) ==
    \/ Lower(py_str(pna)) # W_disabled
    \/ Lower(py_str(nda)) = W_allow

get_storage_details(est, max_accounts, fails) ==
    IF "st.accounts.list" \in fails THEN Raise(ApiError("st.accounts.list"))
    ELSE
    LET n == Min(Len(est.accounts), max_accounts)
        accounts == [ i \in 1..n |->
            [name |-> est.accounts[i].name,
             public_network_access |-> est.accounts[i].public_network_access,
             network_default_action |->
                 IF "st.get_properties" \in fails THEN StrV(<< >>)
                 ELSE est.accounts[i].default_action,
             blob_versioning |->
                 IF "st.blob_props" \in fails THEN FALSE ELSE est.accounts[i].versioning,
             used |-> IF "st.metrics" \in fails THEN 0 ELSE est.accounts[i].used] ]
    IN  Return([summary |-> [total_accounts |-> Len(accounts),
                             public_allowed_accounts |->
                                 Cardinality({ i \in 1..n :
                                     CountsAsPublic(accounts[i].public_network_access,
                                                    accounts[i].network_default_action) })],
                accounts |-> accounts])

(***************************************************************************)
(* network_reader.py                                                       *)
(***************************************************************************)
\* the four _list_by_type calls and virtual_networks.list_all() are made outside
\* any try block; the first of them that fails, in call order, raises
NetworkUnguarded ==
    << "net.gateways", "net.er_circuits", "net.priv_dns", "net.priv_dns_links", "net.vnets" >>

RECURSIVE FirstFailing(_, _)
FirstFailing(calls, fails) ==
    IF calls = << >> THEN ""
    ELSE IF Head(calls) \in fails THEN Head(calls)
    ELSE FirstFailing(Tail(calls), fails)

get_network_details(est, max_vnets, fails) ==
    LET bad == FirstFailing(NetworkUnguarded, fails)
        \* the loop appends a row and only then tests len(vnets) >= max_vnets
        n == IF Len(est.vnets) = 0 THEN 0
             ELSE IF max_vnets < 1 THEN 1
             ELSE Min(Len(est.vnets), max_vnets)
        vnets == [ i \in 1..n |->
            [name |-> est.vnets[i].name,
             peerings_count |-> IF "net.peerings" \in fails THEN 0 ELSE est.vnets[i].peerings,
             subnets |-> IF "net.subnets" \in fails THEN 0 ELSE est.vnets[i].subnets] ]
    IN  IF bad # "" THEN Raise(ApiError(bad))
        ELSE Return(
            [summary |-> [counts |->
                [vnets |-> Len(vnets),
                 nsgs |-> IF "net.nsgs" \in fails THEN 0 ELSE est.nsgs,
                 vnet_gateways |-> est.gateways]],
             vnets |-> vnets])

(***************************************************************************)
(* rg_reader.py                                                            *)
(***************************************************************************)
get_rg_details(est, max_groups, fails) ==
    IF "rg.list" \in fails THEN Raise(ApiError("rg.list"))
    ELSE
    LET rgs == est.groups
        n == Min(Len(rgs), max_groups)
        out_groups == [ i \in 1..n |->
            [name |-> rgs[i].name,
             resource_count |-> IF "rg.list_by_rg" \in fails THEN 0 ELSE rgs[i].resources] ]
    IN  Return([summary |-> [total_rgs |-> Len(rgs)], groups |-> out_groups])

(***************************************************************************)
(* governance_security_cost_reader.py: month arithmetic                    *)
(***************************************************************************)
\* _add_months on the first day of month (y, m): the while loops of the source
RECURSIVE NormMonth(_, _)
NormMonth(y, m) ==
    IF m > 12 THEN NormMonth(y + 1, m - 12)
    ELSE IF m < 1 THEN NormMonth(y - 1, m + 12)
    ELSE [year |-> y, month |-> m]

\* a variant of _add_months that wraps the month and leaves the year alone
_add_months_same_year(dt, months) ==
    [year |-> dt.year, month |-> ((dt.month + months - 1) % 12) + 1]

_add_months(dt, months) == NormMonth(dt.year, dt.month + months)

\* f"{m_start.year}-{m_start.month:02d}"
MonthKey(dt) == IntToStr(dt.year) \o << "-" >> \o Pad2(dt.month)

(***************************************************************************)
(* _is_throttle_exc and _retry                                             *)
(***************************************************************************)
S_429 == << "4", "2", "9" >>
S_too_many_requests == << "t", "o", "o", " ", "m", "a", "n", "y", " ", "r", "e", "q", "u", "e", "s", "t", "s" >>
S_thrott == << "t", "h", "r", "o", "t", "t" >>

_is_throttle_exc(e) ==
    LET s == Lower(e)
    IN  Contains(S_429, s) \/ Contains(S_too_many_requests, s) \/ Contains(S_thrott, s)

\* the messages of the errors the wrapped call can raise
E_Http429 == << "H", "T", "T", "P", " ", "4", "2", "9" >>
E_TooMany == << "T", "o", "o", " ", "M", "a", "n", "y", " ", "R", "e", "q", "u", "e", "s", "t", "s" >>
E_Throttled == << "R", "e", "q", "u", "e", "s", "t", " ", "w", "a", "s", " ", "T", "h", "r", "o", "t", "t", "l", "e", "d" >>
E_AuthFailed == << "A", "u", "t", "h", "o", "r", "i", "z", "a", "t", "i", "o", "n", "F", "a", "i", "l", "e", "d" >>
E_Http500 == << "H", "T", "T", "P", " ", "5", "0", "0", " ", "s", "e", "r", "v", "e", "r", " ", "e", "r", "r", "o", "r" >>
ErrorMessages == { E_Http429, E_TooMany, E_Throttled, E_AuthFailed, E_Http500 }

Attempts == 7           \* _retry(fn, *, attempts: int = 7, ...)
BaseDelay == 100        \* base_delay: float = 1.0, in hundredths of a second
Jitters == { 0, 34 }    \* random.uniform(0.0, 0.35), in hundredths of a second

RECURSIVE Pow2(_)
Pow2(i) == IF i = 0 THEN 1 ELSE 2 * Pow2(i - 1)

\* a variant of RetryDelay that doubles the jitter with the base delay
RetryDelay_jitter_scaled(i, jitter) == (BaseDelay + jitter) * Pow2(i)

\* delay = base_delay * (2 ** i) + random.uniform(0.0, 0.35)
RetryDelay(i, jitter) == BaseDelay * Pow2(i) + jitter

\* a variant of RetryGoesOn that retries after every error
RetryGoesOn_any_error(e) == TRUE

\* does _retry go on to sleep and to the next iteration after error e?
RetryGoesOn(e) == _is_throttle_exc(e)

\* the for loop runs while i < attempts
RetryLoopRuns(i) == i < Attempts

RtInit ==
    [pc |-> "loop", i |-> 0, calls |-> 0, slept |-> << >>,
     last |-> << >>, outcome |-> NoValue]

\* one iteration of the for loop whose call returns
RetryCallReturns ==
    /\ rt.pc = "loop"
    /\ RetryLoopRuns(rt.i)
    /\ rt' = [rt EXCEPT !.calls = @ + 1, !.pc = "returned",
                        !.outcome = Return([rows_from_call |-> rt.calls + 1])]
    /\ UNCHANGED <<runVars, cc, cost>>

\* one iteration of the for loop whose call raises e
RetryCallRaises ==
    /\ rt.pc = "loop"
    /\ RetryLoopRuns(rt.i)
    /\ \E e \in ErrorMessages :
         IF RetryGoesOn(e)
         THEN \E jitter \in Jitters :
                rt' = [rt EXCEPT !.calls = @ + 1, !.last = e,
                                 !.slept = Append(@, RetryDelay(rt.i, jitter)),
                                 !.i = @ + 1]
         ELSE rt' = [rt EXCEPT !.calls = @ + 1, !.last = e,
                               !.pc = "raised", !.outcome = Raise(e)]
    /\ UNCHANGED <<runVars, cc, cost>>

\* raise last, after the loop
RetryExhausted ==
    /\ rt.pc = "loop"
    /\ ~RetryLoopRuns(rt.i)
    /\ rt' = [rt EXCEPT !.pc = "raised", !.outcome = Raise(rt.last)]
    /\ UNCHANGED <<runVars, cc, cost>>

(***************************************************************************)
(* Cost rows.  A value of a row is a string, an int, a float (kept in      *)
(* thousandths, so that round(x, 2) is not the identity), a bool or None.  *)
(***************************************************************************)
\* a float that str() prints in scientific notation (below 1e-4), with the
\* text it prints as: str(1.5e-07) is "1.5e-07"
SciFloatV(milli, text) == [t |-> "float_sci", n |-> milli, s |-> text]

\* to_float: float(v), None for a bool and for what float() rejects
to_float(v) ==
    IF v.t = "bool" THEN PyNone
    ELSE IF v.t = "float" \/ v.t = "float_sci" THEN [f |-> v.n]
    ELSE IF v.t = "int" THEN [f |-> 1000 * v.n]
    ELSE IF v.t = "str" /\ IsDigitStr(v.s) THEN [f |-> 1000 * StrToInt(v.s)]
    ELSE PyNone

\* str(v).strip() for the values a row holds; a float of the usual size prints
\* with a decimal point and passes neither test of to_month, one printed in
\* scientific notation is tested as its text
to_month(v) ==
    IF v.t = "none" \/ v.t = "bool" \/ v.t = "float" THEN PyNone
    ELSE
    LET s == IF v.t = "int" THEN IntToStr(v.n) ELSE v.s   \* "str" and "float_sci"
        s2 == ReplaceChar(s, "/", "-")
    IN  IF Len(s) = 0 THEN PyNone
        ELSE IF Len(s2) >= 7 /\ s2[5] = "-" /\ (Len(s2) = 7 \/ s2[8] = "-")
             THEN [m |-> SubSeq(s2, 1, 7)]
        ELSE IF Len(s2) = 6 /\ IsDigitStr(s2)
             THEN [m |-> SubSeq(s2, 1, 4) \o << "-" >> \o SubSeq(s2, 5, 6)]
        ELSE PyNone

Abs(x) == IF x < 0 THEN -x ELSE x

\* Pass 1: the first month-like value of the row
RECURSIVE FirstMonth(_)
FirstMonth(r) ==
    IF r = << >> THEN PyNone
    ELSE IF to_month(Head(r)) # PyNone THEN to_month(Head(r))
    ELSE FirstMonth(Tail(r))

\* Pass 2: sorted(nums, key=abs, reverse=True)[0]; the sort is stable, so of two
\* numbers of equal magnitude the earlier one is taken
RECURSIVE LargestAbs(_)
LargestAbs(r) ==
    IF r = << >> THEN PyNone
    ELSE LET f == to_float(Head(r))
             rest == LargestAbs(Tail(r))
         IN  IF f = PyNone THEN rest
             ELSE IF rest = PyNone THEN f
             ELSE IF Abs(rest.f) > Abs(f.f) THEN rest ELSE f

DictPut(d, k, v) == [ x \in (DOMAIN d) \cup {k} |-> IF x = k THEN v ELSE d[x] ]
EmptyDict == [ x \in {} |-> 0 ]

\* a row of the response: a list of values, or something that is no list
ListRow(vals) == [t |-> "list", vals |-> vals]

\* a row that is not a non-empty list or tuple is skipped
IsListRow(r) == r.t = "list" /\ r.vals # << >>

RECURSIVE ParseInto(_, _)
ParseInto(rows, out) ==
    IF rows = << >> THEN out
    ELSE LET r == Head(rows)
         IN  IF ~IsListRow(r) THEN ParseInto(Tail(rows), out)
             ELSE LET month == FirstMonth(r.vals)
                      c == LargestAbs(r.vals)
                  IN  IF month # PyNone /\ c # PyNone
                      THEN ParseInto(Tail(rows), DictPut(out, month.m, c.f))
                      ELSE ParseInto(Tail(rows), out)

_parse_monthly_rows(rows) == ParseInto(rows, EmptyDict)

\* round(x, 2) on thousandths: to the nearest hundredth, a tie to the even one
Round2(milli) ==
    LET a == Abs(milli)
        q == a \div 10
        r == a % 10
        up == IF r > 5 THEN 1 ELSE IF r < 5 THEN 0 ELSE (q % 2)
        v == 10 * (q + up)
    IN  IF milli < 0 THEN -v ELSE v

\* _extract_cost_rows: res.rows, res.properties.rows, the dict forms, else []
_extract_cost_rows(res) ==
    IF res = PyNone THEN << >>
    ELSE IF res.shape \in {"rows", "properties", "dict_rows", "dict_properties"}
         THEN res.rows
    ELSE << >>

\* the offsets of the loop "for i in range(4, -1, -1)"
WindowOffsets == << 4, 3, 2, 1, 0 >>

\* the months list built from by_month
MonthsOut(this_month, by_month) ==
    [ k \in 1..Len(WindowOffsets) |->
        LET key == MonthKey(_add_months(this_month, -WindowOffsets[k]))
        IN  [month |-> key,
             total |-> Round2(IF key \in DOMAIN by_month THEN by_month[key] ELSE 0)] ]

\* does _try_cost_last_5_months return early, with months == [], on these rows?
CostReturnsEarly(rows) == rows = << >>

\* _try_cost_last_5_months; q is the outcome of _retry(cm.query.usage)
_try_cost_last_5_months(has_cost, this_month, q) ==
    IF ~has_cost
    THEN [months |-> << >>, note |-> "Cost Management SDK not available."]
    ELSE IF q.raised
    THEN [months |-> << >>, note |-> "Failed to query monthly cost totals"]
    ELSE LET rows == _extract_cost_rows(q.value)
         IN  IF CostReturnsEarly(rows)
             THEN [months |-> << >>, note |-> "Cost query returned no rows"]
             ELSE [months |-> MonthsOut(this_month, _parse_monthly_rows(rows)),
                   note |-> "Cost totals retrieved (last 5 months)"]

(***************************************************************************)
(* governance_security_cost_reader.py: the four sub-queries and the entry  *)
(* point.  sdk says which optional SDK imports succeeded (HAS_ARG, ...).   *)
(***************************************************************************)
SdkAll == [arg |-> TRUE, policy |-> TRUE, cost |-> TRUE, security |-> TRUE]

_try_resource_graph_mg_path(est, sdk, fails) ==
    IF ~sdk.arg THEN [path |-> << >>, leaf_mg |-> "", note |-> "Resource Graph SDK not available."]
    ELSE IF "gsc.mg_graph" \in fails
    THEN [path |-> << >>, leaf_mg |-> "", note |-> "Failed to resolve management group path"]
    ELSE IF est.mg_path = << >>
    THEN [path |-> << >>, leaf_mg |-> "", note |-> "No management group chain returned."]
    ELSE [path |-> est.mg_path, leaf_mg |-> est.mg_path[Len(est.mg_path)],
          note |-> "Derived from Resource Graph."]

_try_list_policy_assignments(est, sdk, fails) ==
    IF ~sdk.policy THEN [assignment_count |-> 0, note |-> "Policy SDK not available."]
    ELSE IF "gsc.policy_list" \in fails
    THEN [assignment_count |-> 0, note |-> "Failed to list policy assignments"]
    ELSE [assignment_count |-> est.policies,
          note |-> "Policy assignments enumerated at subscription scope."]

_try_defender_posture(est, sdk, fails) ==
    IF ~sdk.security
    THEN [plans |-> 0, secure_score |-> PyNone, alerts_last_30d |-> PyNone,
          note |-> "Security (Defender) SDK not available."]
    ELSE
    LET plans == IF "gsc.pricings" \in fails THEN 0 ELSE 1
        score == IF "gsc.secure_scores" \in fails THEN PyNone ELSE [current |-> est.score]
        alerts == IF "gsc.alerts" \in fails THEN PyNone ELSE [n |-> est.alerts]
    IN  [plans |-> plans, secure_score |-> score, alerts_last_30d |-> alerts,
         note |-> IF score # PyNone \/ alerts # PyNone
                  THEN "Defender posture retrieved from Security Center."
                  ELSE IF plans > 0
                  THEN "Defender pricing/plans retrieved from Security Center."
                  ELSE "Failed to retrieve Defender posture"]

\* the cost rows of the estate as the Cost Management response
EstateCostResponse(est) ==
    [shape |-> "rows",
     rows |-> [ i \in 1..Len(est.cost_rows) |->
                 ListRow(<< StrV(est.cost_rows[i].month), FloatV(est.cost_rows[i].cost) >>) ]]

\* a variant of get_governance_security_cost_details whose sub-queries run
\* inside one try block of the entry point: the first failure ends them all
get_governance_security_cost_details_one_try(est, sdk, fails) ==
    IF fails \cap { "gsc.mg_graph", "gsc.policy_list", "gsc.cost_query",
                    "gsc.pricings", "gsc.secure_scores", "gsc.alerts" } # {}
    THEN Raise(ApiError("gsc"))
    ELSE Return(
      [subscription |-> [display_name |-> est.sub_name, note |-> "Subscription metadata retrieved."],
       management_group |-> _try_resource_graph_mg_path(est, sdk, fails),
       policy |-> _try_list_policy_assignments(est, sdk, fails),
       cost |-> _try_cost_last_5_months(sdk.cost, est.this_month, Return(EstateCostResponse(est))),
       defender |-> _try_defender_posture(est, sdk, fails)])

get_governance_security_cost_details(est, sdk, fails) ==
    Return(
      [subscription |->
           IF "gsc.sub_get" \in fails
           THEN [display_name |-> "", note |-> "Failed to retrieve subscription metadata"]
           ELSE [display_name |-> est.sub_name, note |-> "Subscription metadata retrieved."],
       management_group |-> _try_resource_graph_mg_path(est, sdk, fails),
       policy |-> _try_list_policy_assignments(est, sdk, fails),
       cost |-> _try_cost_last_5_months(sdk.cost, est.this_month,
                    IF "gsc.cost_query" \in fails
                    THEN Raise(ApiError("gsc.cost_query"))
                    ELSE Return(EstateCostResponse(est))),
       defender |-> _try_defender_posture(est, sdk, fails)])

(***************************************************************************)
(* The collectors as run_audit calls them, with their default caps.        *)
(***************************************************************************)
DefaultSampleSize == 5      \* audit_subscription_resources(..., sample_size=5)
DefaultMaxVms == 100        \* get_vm_details(..., max_vms: int = 100)
DefaultMaxAccounts == 200   \* get_storage_details(..., max_accounts: int = 200)
DefaultMaxVnets == 50       \* get_network_details(..., max_vnets: int = 50)
DefaultMaxGroups == 100     \* get_rg_details(..., max_groups: int = 100)

CollectorNames == << "inventory", "vm", "storage", "network", "rg", "gsc" >>

CallsOf(c) ==
    CASE c = "inventory" -> InventoryCalls
      [] c = "vm" -> VmCalls
      [] c = "storage" -> StorageCalls
      [] c = "network" -> NetworkCalls
      [] c = "rg" -> RgCalls
      [] c = "gsc" -> GscCalls

RunCollector(c, est, fails) ==
    CASE c = "inventory" -> audit_subscription_resources(est, DefaultSampleSize, fails)
      [] c = "vm" -> get_vm_details(est, DefaultMaxVms, fails)
      [] c = "storage" -> get_storage_details(est, DefaultMaxAccounts, fails)
      [] c = "network" -> get_network_details(est, DefaultMaxVnets, fails)
      [] c = "rg" -> get_rg_details(est, DefaultMaxGroups, fails)
      [] c = "gsc" -> get_governance_security_cost_details(est, SdkAll, fails)

\* the subsets of S with at most k elements
RECURSIVE SubsetsUpTo(_, _)
SubsetsUpTo(S, k) ==
    IF k = 0 THEN { {} }
    ELSE LET P == SubsetsUpTo(S, k - 1)
         IN  P \cup { p \cup {x} : p \in P, x \in S }

(***************************************************************************)
(* SpecCollector: one collector is invoked while some of its API calls     *)
(* raise; cc records the invocation and what came back to the caller.      *)
(***************************************************************************)
CcIdle == [pc |-> "idle", collector |-> "", fails |-> {}, out |-> NoValue]

Invoke(c) ==
    /\ cc.pc = "idle"
    /\ \E fails \in SubsetsUpTo(Range(CallsOf(c)), MaxFailingCalls) :
         cc' = [pc |-> "called", collector |-> c, fails |-> fails,
                out |-> RunCollector(c, Estate, fails)]
    /\ UNCHANGED <<runVars, cost, rt>>

InvokeInventory == Invoke("inventory")
InvokeVm == Invoke("vm")
InvokeStorage == Invoke("storage")
InvokeNetwork == Invoke("network")
InvokeRg == Invoke("rg")
InvokeGsc == Invoke("gsc")

\* the caller takes the outcome; the next invocation can start
InvokeDone ==
    /\ cc.pc = "called"
    /\ cc' = CcIdle
    /\ UNCHANGED <<runVars, cost, rt>>

(***************************************************************************)
(* app.py: the run directory.  A file is absent, holds a complete JSON or  *)
(* HTML document, or is truncated: Path.write_text opens the file with     *)
(* mode "w", which empties it, and writes the text afterwards.             *)
(***************************************************************************)
Runs == { "r1" }
FileNames == { "status.json", "inputs.json", "result.json", "report.html", "archive.html" }

Absent == [kind |-> "absent"]
Truncated == [kind |-> "truncated"]
Doc(d) == [kind |-> "doc", doc |-> d]

\* _read_json: None when the file does not exist, else json.loads of its text
_read_json(content) ==
    IF content = Absent THEN Return(PyNone)
    ELSE IF content = Truncated THEN Raise("JSONDecodeError")
    ELSE Return(content.doc)

\* dict.get(key)
Get(d, key) == IF key \in DOMAIN d THEN d[key] ELSE PyNone

\* the status documents of run_async and _worker
RunningDoc(r, sub, t) ==
    [run_id |-> r, subscription_id |-> sub, status |-> "running", started_utc |-> t]
\* a variant of SucceededDoc that carries an "error" key holding null
SucceededDoc_null_error(r, sub, started, t) ==
    [run_id |-> r, subscription_id |-> sub, status |-> "succeeded",
     started_utc |-> started, finished_utc |-> t, error |-> PyNone]

SucceededDoc(r, sub, started, t) ==
    [run_id |-> r, subscription_id |-> sub, status |-> "succeeded",
     started_utc |-> started, finished_utc |-> t]
FailedDoc(r, sub, t, e) ==
    [run_id |-> r, subscription_id |-> sub, status |-> "failed",
     finished_utc |-> t, error |-> e]

(***************************************************************************)
(* Call sites of the worker that can raise besides the collectors' API     *)
(* calls: the narrative calls (caught by _safe_ai) and the steps of        *)
(* run_audit and _worker that follow them inside the try block.            *)
(***************************************************************************)
AiSections == << "overview", "vm", "storage", "network", "gsc", "rg" >>
AiSites == << "ai.overview", "ai.vm", "ai.storage", "ai.network", "ai.gsc", "ai.rg" >>
StepSites == { "render", "write_report_ui", "write_report_archive",
               "json_dumps_result", "write_status_succeeded" }
ApiSites ==
    Range(InventoryCalls) \cup Range(VmCalls) \cup Range(StorageCalls)
    \cup Range(NetworkCalls) \cup Range(RgCalls) \cup Range(GscCalls)
FaultSites == ApiSites \cup Range(AiSites) \cup StepSites

Subscriptions == { "", "sub-A" }    \* body.get("subscriptionId"); "" is a missing id
Prompts == { "", "angle-1" }        \* report_angle_text after _trim_prompt

LocalsInit ==
    [executed |-> << >>, inventory |-> NoValue, vm |-> NoValue, storage |-> NoValue,
     network |-> NoValue, rg |-> NoValue, gsc |-> NoValue, ai |-> << >>,
     html |-> NoValue, results |-> NoValue, started |-> NoValue, err |-> ""]

ReqNone == [subscription_id |-> "", token_ok |-> FALSE, angle |-> "", http |-> 0, error |-> ""]
PollIdle == [pc |-> "idle", run |-> "", seen |-> NoValue, status |-> NoValue,
             resp |-> [code |-> 0]]

\* client = None; deployment = None.  written_by: the runs whose thread has
\* assigned a global, in no code, kept to tell who writes process-wide state
AiGlobalsInit == [client |-> "None", deployment |-> "None", written_by |-> {}]

\* _ensure_client called in the thread of run r; configured says whether the
\* AZURE_OPENAI_* environment variables are all set.  deployment is assigned
\* before the test that raises ValueError.
_ensure_client(g, r, configured) ==
    IF g.client # "None" THEN [raised |-> FALSE, globals |-> g]
    ELSE IF ~configured
    THEN [raised |-> TRUE,
          globals |-> [g EXCEPT !.deployment = "unset", !.written_by = @ \cup {r}]]
    ELSE [raised |-> FALSE,
          globals |-> [client |-> "AzureOpenAI", deployment |-> "env",
                       written_by |-> g.written_by \cup {r}]]

RunInit ==
    /\ files = [r \in Runs |-> [f \in FileNames |-> Absent]]
    /\ pc = [r \in Runs |-> "none"]
    /\ req = [r \in Runs |-> ReqNone]
    /\ faulty = [r \in Runs |-> {}]
    /\ locals = [r \in Runs |-> LocalsInit]
    /\ clock = 0
    /\ hist = [r \in Runs |-> << >>]
    /\ poll = PollIdle
    /\ ai_globals = AiGlobalsInit

\* time passes
Tick ==
    /\ clock < MaxClock
    /\ clock' = clock + 1
    /\ UNCHANGED <<files, pc, req, faulty, locals, hist, poll, cc, cost, rt, ai_globals>>

(***************************************************************************)
(* POST /run (run_async): the whole request handler.  r is the request;    *)
(* when it is accepted, r is also its run_id (the uuid suffix makes every  *)
(* run_id new).  The thread is started before the response is sent.        *)
(***************************************************************************)
\* a variant of RequestVerdict that does not test the token before the run starts
RequestVerdict_no_token_test(sub, token_ok) ==
    IF sub = "" THEN 400 ELSE 202

\* the early returns of run_async: the HTTP status the request is answered with
RequestVerdict(sub, token_ok) ==
    IF sub = "" THEN 400
    ELSE IF ~token_ok THEN 401
    ELSE 202

RunAsync(r) ==
    /\ pc[r] = "none"
    /\ \E sub \in Subscriptions, token_ok \in BOOLEAN, angle \in Prompts,
          fs \in SubsetsUpTo(FaultSites, MaxFaults) :
         IF RequestVerdict(sub, token_ok) = 400
         THEN /\ req' = [req EXCEPT ![r] =
                    [subscription_id |-> sub, token_ok |-> token_ok, angle |-> angle,
                     http |-> 400, error |-> "Missing subscriptionId"]]
              /\ pc' = [pc EXCEPT ![r] = "rejected"]
              /\ UNCHANGED <<files, faulty, hist>>
         ELSE IF RequestVerdict(sub, token_ok) = 401
         THEN /\ req' = [req EXCEPT ![r] =
                    [subscription_id |-> sub, token_ok |-> token_ok, angle |-> angle,
                     http |-> 401, error |-> "Could not obtain ARM token via OBO"]]
              /\ pc' = [pc EXCEPT ![r] = "rejected"]
              /\ UNCHANGED <<files, faulty, hist>>
         ELSE /\ req' = [req EXCEPT ![r] =
                    [subscription_id |-> sub, token_ok |-> token_ok, angle |-> angle,
                     http |-> 202, error |-> ""]]
              /\ files' = [files EXCEPT
                    ![r]["status.json"] = Doc(RunningDoc(r, sub, clock)),
                    ![r]["inputs.json"] =
                        Doc([subscription_id |-> sub, report_angle_text |-> angle,
                             started_utc |-> clock])]
              /\ hist' = [hist EXCEPT ![r] = Append(@, RunningDoc(r, sub, clock))]
              /\ faulty' = [faulty EXCEPT ![r] = fs]
              /\ pc' = [pc EXCEPT ![r] = "w_start"]
    /\ UNCHANGED <<locals, clock, poll, cc, cost, rt, ai_globals>>

(***************************************************************************)
(* _worker and run_audit, statement by statement                           *)
(***************************************************************************)
Goto(r, label) == pc' = [pc EXCEPT ![r] = label]

\* a variant of ExceptLabel: no handler, the exception ends the worker thread
ExceptLabel_unhandled == "done"

\* where an exception raised inside the try block of _worker goes: its
\* "except Exception as e" clause
ExceptLabel == "except"

\* an exception leaves the try block of _worker
Throw(r, e) ==
    /\ pc' = [pc EXCEPT ![r] = ExceptLabel]
    /\ locals' = [locals EXCEPT ![r].err = e]

\* credential = StaticTokenCredential(arm_token); run_audit: os.makedirs,
\* set_prompt_context
StartAudit(r) ==
    /\ pc[r] = "w_start"
    /\ Goto(r, "c_inventory")
    /\ UNCHANGED <<files, req, faulty, locals, clock, hist, poll, cc, cost, rt, ai_globals>>

\* does run_audit go on after this collector outcome?  It calls every collector
\* outside any try block: a raised exception leaves run_audit
CollectorAbsorbed(out) == ~out.raised

Collect(r, c, field, next) ==
    /\ pc[r] = c
    /\ LET out == RunCollector(field, Estate, faulty[r] \cap ApiSites)
       IN  IF CollectorAbsorbed(out)
           THEN /\ locals' = [locals EXCEPT ![r][field] = out.value,
                                            ![r].executed = Append(@, field)]
                /\ Goto(r, next)
           ELSE /\ locals' = [locals EXCEPT ![r].err = out.error,
                                            ![r].executed = Append(@, field)]
                /\ Goto(r, ExceptLabel)
    /\ UNCHANGED <<files, req, faulty, clock, hist, poll, cc, cost, rt, ai_globals>>

CollectInventory(r) == Collect(r, "c_inventory", "inventory", "c_vm")
CollectVm(r) == Collect(r, "c_vm", "vm", "c_storage")
CollectStorage(r) == Collect(r, "c_storage", "storage", "c_network")
CollectNetwork(r) == Collect(r, "c_network", "network", "c_rg")
CollectRg(r) == Collect(r, "c_rg", "rg", "c_gsc")
CollectGsc(r) == Collect(r, "c_gsc", "gsc", "ai")

\* _safe_ai(fn, arg): the narrative, or the placeholder when fn raises
\* a variant of _safe_ai that swallows the exception and returns an empty text
_safe_ai_returns_empty(site, fails) == [placeholder |-> FALSE, prefix |-> "", error |-> ""]

_safe_ai(site, fails) ==
    IF site \in fails
    THEN [placeholder |-> TRUE, prefix |-> "(AI narrative unavailable: ", error |-> site]
    ELSE [placeholder |-> FALSE, prefix |-> "", error |-> ""]

\* the six _safe_ai calls, one per step, in the order of AiSections
Narrate(r) ==
    /\ pc[r] = "ai"
    /\ LET k == Len(locals[r].ai) + 1
       IN  /\ locals' = [locals EXCEPT ![r].ai = Append(@, _safe_ai(AiSites[k], faulty[r]))]
           /\ Goto(r, IF k = Len(AiSites) THEN "render" ELSE "ai")
           \* the analyzer calls _ensure_client first; a call that raises does so
           \* there (ValueError, nothing configured) or in the request that follows
           /\ \E configured \in BOOLEAN :
                /\ (~configured => AiSites[k] \in faulty[r] /\ ai_globals.client = "None")
                /\ ai_globals' = _ensure_client(ai_globals, r, configured).globals
    /\ UNCHANGED <<files, req, faulty, clock, hist, poll, cc, cost, rt>>

\* a step of the try block that raises when its call site is faulty
StepRaises(r, site) == site \in faulty[r]

\* body = _render_..._section(...) + ...; html = _page_shell(title, subtitle, body)
Render(r) ==
    /\ pc[r] = "render"
    /\ IF StepRaises(r, "render") THEN Throw(r, "render")
       ELSE /\ locals' = [locals EXCEPT ![r].html =
                    [sections |-> << "prompt" >> \o AiSections, narratives |-> locals[r].ai]]
            /\ Goto(r, "write_ui")
    /\ UNCHANGED <<files, req, faulty, clock, hist, poll, cc, cost, rt, ai_globals>>

\* _write_text(report_path_ui, html)
WriteReportUi(r) ==
    /\ pc[r] = "write_ui"
    /\ IF StepRaises(r, "write_report_ui")
       THEN Throw(r, "write_report_ui") /\ UNCHANGED files
       ELSE /\ files' = [files EXCEPT ![r]["report.html"] = Doc(locals[r].html)]
            /\ Goto(r, "write_archive")
            /\ UNCHANGED locals
    /\ UNCHANGED <<req, faulty, clock, hist, poll, cc, cost, rt, ai_globals>>

\* a variant of WriteReportArchive in which run_audit returns without having
\* written the archival copy
WriteReportArchive_not_written(r) ==
    /\ pc[r] = "write_archive"
    /\ Goto(r, "return")
    /\ UNCHANGED <<files, req, faulty, locals, clock, hist, poll, cc, cost, rt, ai_globals>>

\* _write_text(report_path, html)
WriteReportArchive(r) ==
    /\ pc[r] = "write_archive"
    /\ IF StepRaises(r, "write_report_archive")
       THEN Throw(r, "write_report_archive") /\ UNCHANGED files
       ELSE /\ files' = [files EXCEPT ![r]["archive.html"] = Doc(locals[r].html)]
            /\ Goto(r, "return")
            /\ UNCHANGED locals
    /\ UNCHANGED <<req, faulty, clock, hist, poll, cc, cost, rt, ai_globals>>

\* the summary of run_audit: every entry is a dict.get on a collector's summary
AuditSummary(l, sub, r) ==
    [subscription_id |-> sub,
     run_id |-> r,
     inventory_types |-> Len(l.inventory),
     vm_total_all |-> Get(l.vm.summary, "total_vms_all"),
     storage_accounts |-> Get(l.storage.summary, "total_accounts"),
     vnets |-> Get(l.network.summary, "vnets"),
     resource_groups |-> Get(l.rg.summary, "count"),
     policy_assignments |-> Get(l.gsc.policy, "assignment_count"),
     secure_score |-> Get(l.gsc.defender, "secure_score")]

\* run_audit returns; _worker adds report_url
ReturnResults(r) ==
    /\ pc[r] = "return"
    /\ locals' = [locals EXCEPT ![r].results =
           [summary |-> AuditSummary(locals[r], req[r].subscription_id, r),
            report_file |-> "archive.html",
            report_file_ui |-> "report.html",
            report_url |-> << "/outputs", r, "report.html" >>,
            prompt_context |-> [report_angle_text |-> req[r].angle],
            inventory |-> locals[r].inventory,
            vm |-> locals[r].vm,
            storage |-> locals[r].storage,
            network |-> locals[r].network,
            governance_security_cost |-> locals[r].gsc,
            resource_groups |-> locals[r].rg]]
    /\ Goto(r, "write_result")
    /\ UNCHANGED <<files, req, faulty, clock, hist, poll, cc, cost, rt, ai_globals>>

\* _write_json(result_path, results): json.dumps, then write_text opens the file
WriteResultOpen(r) ==
    /\ pc[r] = "write_result"
    /\ IF StepRaises(r, "json_dumps_result")
       THEN Throw(r, "json_dumps_result") /\ UNCHANGED files
       ELSE /\ files' = [files EXCEPT ![r]["result.json"] = Truncated]
            /\ Goto(r, "write_result_text")
            /\ UNCHANGED locals
    /\ UNCHANGED <<req, faulty, clock, hist, poll, cc, cost, rt, ai_globals>>

\* ... and writes the text
WriteResultText(r) ==
    /\ pc[r] = "write_result_text"
    /\ files' = [files EXCEPT ![r]["result.json"] = Doc(locals[r].results)]
    /\ Goto(r, "read_started")
    /\ UNCHANGED <<req, faulty, locals, clock, hist, poll, cc, cost, rt, ai_globals>>

\* started = (_read_json(status_path) or {}).get("started_utc")
ReadStarted(r) ==
    /\ pc[r] = "read_started"
    /\ LET rd == _read_json(files[r]["status.json"])
       IN  IF rd.raised THEN Throw(r, rd.error)
           ELSE /\ locals' = [locals EXCEPT ![r].started =
                        IF rd.value = PyNone THEN PyNone
                        ELSE Get(rd.value, "started_utc")]
                /\ Goto(r, "write_succeeded")
    /\ UNCHANGED <<files, req, faulty, clock, hist, poll, cc, cost, rt, ai_globals>>

\* _write_json(status_path, {... "status": "succeeded" ...}): opens the file
WriteSucceededOpen(r) ==
    /\ pc[r] = "write_succeeded"
    /\ IF StepRaises(r, "write_status_succeeded")
       THEN Throw(r, "write_status_succeeded") /\ UNCHANGED files
       ELSE /\ files' = [files EXCEPT ![r]["status.json"] = Truncated]
            /\ Goto(r, "write_succeeded_text")
            /\ UNCHANGED locals
    /\ UNCHANGED <<req, faulty, clock, hist, poll, cc, cost, rt, ai_globals>>

\* a variant of WriteSucceededText: the handler is a "finally" clause, which
\* runs after the try block has completed as well
WriteSucceededText_finally(r) ==
    /\ pc[r] = "write_succeeded_text"
    /\ LET d == SucceededDoc(r, req[r].subscription_id, locals[r].started, clock)
       IN  /\ files' = [files EXCEPT ![r]["status.json"] = Doc(d)]
           /\ hist' = [hist EXCEPT ![r] = Append(@, d)]
    /\ Goto(r, "except")
    /\ UNCHANGED <<req, faulty, locals, clock, poll, cc, cost, rt, ai_globals>>

\* ... and writes the text; the worker thread ends
WriteSucceededText(r) ==
    /\ pc[r] = "write_succeeded_text"
    /\ LET d == SucceededDoc(r, req[r].subscription_id, locals[r].started, clock)
       IN  /\ files' = [files EXCEPT ![r]["status.json"] = Doc(d)]
           /\ hist' = [hist EXCEPT ![r] = Append(@, d)]
    /\ Goto(r, "done")
    /\ UNCHANGED <<req, faulty, locals, clock, poll, cc, cost, rt, ai_globals>>

\* except Exception as e: _write_json(status_path, {... "status": "failed" ...})
WriteFailedOpen(r) ==
    /\ pc[r] = "except"
    /\ files' = [files EXCEPT ![r]["status.json"] = Truncated]
    /\ Goto(r, "write_failed_text")
    /\ UNCHANGED <<req, faulty, locals, clock, hist, poll, cc, cost, rt, ai_globals>>

WriteFailedText(r) ==
    /\ pc[r] = "write_failed_text"
    /\ LET d == FailedDoc(r, req[r].subscription_id, clock, locals[r].err)
       IN  /\ files' = [files EXCEPT ![r]["status.json"] = Doc(d)]
           /\ hist' = [hist EXCEPT ![r] = Append(@, d)]
    /\ Goto(r, "done")
    /\ UNCHANGED <<req, faulty, locals, clock, poll, cc, cost, rt, ai_globals>>

(***************************************************************************)
(* GET /run/<run_id> (run_status): two reads, status.json then result.json *)
(***************************************************************************)
PollReadStatus(r) ==
    /\ poll.pc = "idle"
    /\ LET rd == _read_json(files[r]["status.json"])
       IN  poll' =
             IF rd.raised
             THEN [PollIdle EXCEPT !.run = r, !.seen = files[r]["status.json"],
                                   !.resp = [code |-> 500]]
             ELSE IF rd.value = PyNone
             THEN [PollIdle EXCEPT !.run = r, !.seen = files[r]["status.json"],
                                   !.resp = [code |-> 404]]
             ELSE [pc |-> "have_status", run |-> r, seen |-> files[r]["status.json"],
                   status |-> rd.value, resp |-> [code |-> 0]]
    /\ UNCHANGED <<files, pc, req, faulty, locals, clock, hist, cc, cost, rt, ai_globals>>

PollReadResult ==
    /\ poll.pc = "have_status"
    /\ LET rd == _read_json(files[poll.run]["result.json"])
       IN  poll' =
             IF rd.raised
             THEN [poll EXCEPT !.pc = "idle", !.status = NoValue, !.resp = [code |-> 500]]
             ELSE [poll EXCEPT !.pc = "idle", !.status = NoValue,
                               !.resp = [code |-> 200, status |-> poll.status,
                                         result |-> rd.value]]
    /\ UNCHANGED <<files, pc, req, faulty, locals, clock, hist, cc, cost, rt, ai_globals>>

(***************************************************************************)
(* SpecCost: _try_cost_last_5_months on every bounded outcome of the cost  *)
(* query, for every current month of a year.                               *)
(***************************************************************************)
M_2026_01 == << "2", "0", "2", "6", "-", "0", "1" >>
M_2026_02 == << "2", "0", "2", "6", "-", "0", "2" >>
M_2026_03_noday == << "2", "0", "2", "6", "-", "0", "3" >>
M_2025_12_date == << "2", "0", "2", "5", "-", "1", "2", "-", "0", "1" >>
M_2025_11_slash == << "2", "0", "2", "5", "/", "1", "1", "/", "0", "1" >>
M_2026_06_compact == << "2", "0", "2", "6", "0", "6" >>
M_2025_06 == << "2", "0", "2", "5", "-", "0", "6" >>
M_total == << "t", "o", "t", "a", "l" >>

RowPool ==
    { ListRow(<< StrV(M_2026_01), FloatV(100000) >>),
      ListRow(<< StrV(M_2026_02), FloatV(50000) >>),
      ListRow(<< FloatV(12344), StrV(M_2025_12_date) >>),
      ListRow(<< StrV(M_2025_11_slash), FloatV(-7006) >>),
      ListRow(<< StrV(M_2026_06_compact), FloatV(30000) >>),
      ListRow(<< IntV(202609), FloatV(1500), StrV(M_total) >>),
      ListRow(<< StrV(M_2025_06), FloatV(999000) >>),
      ListRow(<< StrV(M_total), FloatV(5000) >>),
      ListRow(<< StrV(M_2026_03_noday), BoolV(TRUE) >>),
      ListRow(<< >>),
      NoneV }

RECURSIVE SeqsUpTo(_, _)
SeqsUpTo(S, k) ==
    IF k = 0 THEN { << >> }
    ELSE LET P == SeqsUpTo(S, k - 1)
         IN  P \cup { Append(p, x) : p \in P, x \in S }

CostResponses ==
    { PyNone } \cup
    { [shape |-> sh, rows |-> rows] :
        sh \in { "rows", "dict_properties", "other" }, rows \in SeqsUpTo(RowPool, MaxRows) }

\* what _retry(lambda: cm.query.usage(...)) gives back
QueryOutcomes ==
    { Raise("HTTP 429"), Raise("AuthorizationFailed") }
    \cup { Return(res) : res \in CostResponses }

CurrentMonths == { [year |-> 2026, month |-> m] : m \in 1..12 }

InitCost ==
    /\ RunInit
    /\ cc = CcIdle
    /\ rt = RtInit
    /\ cost \in { [pc |-> "call", has_cost |-> h, this_month |-> tm, q |-> q, out |-> NoValue] :
                    h \in BOOLEAN, tm \in CurrentMonths, q \in QueryOutcomes }

TryCost ==
    /\ cost.pc = "call"
    /\ cost' = [cost EXCEPT !.pc = "done",
                            !.out = _try_cost_last_5_months(cost.has_cost, cost.this_month, cost.q)]
    /\ UNCHANGED <<runVars, cc, rt>>

(***************************************************************************)
(* Specifications                                                          *)
(***************************************************************************)
CostIdle == [pc |-> "idle"]

Init ==
    /\ RunInit
    /\ cc = CcIdle
    /\ cost = CostIdle
    /\ rt = RtInit

Next ==
    \/ Tick
    \/ PollReadResult
    \/ \E r \in Runs :
         \/ RunAsync(r)
         \/ StartAudit(r)
         \/ CollectInventory(r)
         \/ CollectVm(r)
         \/ CollectStorage(r)
         \/ CollectNetwork(r)
         \/ CollectRg(r)
         \/ CollectGsc(r)
         \/ Narrate(r)
         \/ Render(r)
         \/ WriteReportUi(r)
         \/ WriteReportArchive(r)
         \/ ReturnResults(r)
         \/ WriteResultOpen(r)
         \/ WriteResultText(r)
         \/ ReadStarted(r)
         \/ WriteSucceededOpen(r)
         \/ WriteSucceededText(r)
         \/ WriteFailedOpen(r)
         \/ WriteFailedText(r)
         \/ PollReadStatus(r)

Spec == Init /\ [][Next]_vars

NextCollector ==
    \/ InvokeInventory
    \/ InvokeVm
    \/ InvokeStorage
    \/ InvokeNetwork
    \/ InvokeRg
    \/ InvokeGsc
    \/ InvokeDone

SpecCollector == Init /\ [][NextCollector]_vars

NextRetry ==
    \/ RetryCallReturns
    \/ RetryCallRaises
    \/ RetryExhausted

SpecRetry == Init /\ [][NextRetry]_vars

NextCost == TryCost

SpecCost == InitCost /\ [][NextCost]_vars

(***************************************************************************)
(* SpecCaps: each capped collector called once on a subscription of n      *)
(* resources with a cap of k detailed rows, for every n and k within the   *)
(* bounds, with no API call or one API call raising.                       *)
(***************************************************************************)
MaxResources == 3       \* resources of each kind in the subscription
MaxCap == 3             \* largest cap value tried; the smallest is 0

CappedCollectors == { "vm", "storage", "network", "rg" }

ResourceNames == << "n1", "n2", "n3", "n4", "n5", "n6" >>

\* a subscription holding n VMs, n storage accounts, n VNets and n resource groups
EstateOf(n) ==
    [Estate EXCEPT
       !.vms = [ i \in 1..n |-> [name |-> ResourceNames[i], power |-> "Running"] ],
       !.accounts = [ i \in 1..n |->
                        [name |-> ResourceNames[i], public_network_access |-> StrV(W_Enabled),
                         default_action |-> StrV(W_Allow), versioning |-> FALSE, used |-> i] ],
       !.vnets = [ i \in 1..n |-> [name |-> ResourceNames[i], peerings |-> 0, subnets |-> 1] ],
       !.groups = [ i \in 1..n |-> [name |-> ResourceNames[i], resources |-> i] ]]

\* the collector called with its cap argument given explicitly
RunCapped(c, est, cap, fails) ==
    CASE c = "vm"      -> get_vm_details(est, cap, fails)
      [] c = "storage" -> get_storage_details(est, cap, fails)
      [] c = "network" -> get_network_details(est, cap, fails)
      [] c = "rg"      -> get_rg_details(est, cap, fails)

InitCaps ==
    /\ RunInit
    /\ rt = RtInit
    /\ cost = CostIdle
    /\ cc \in { [pc |-> "call", collector |-> c, n |-> n, cap |-> k, fails |-> f,
                 out |-> NoValue] :
                  c \in CappedCollectors, n \in 0..MaxResources, k \in 0..MaxCap,
                  f \in { {} } \cup { {x} : x \in ApiSites } }
    /\ cc.fails \subseteq Range(CallsOf(cc.collector))

CallCapped(c) ==
    /\ cc.pc = "call"
    /\ cc.collector = c
    /\ cc' = [cc EXCEPT !.pc = "called",
                        !.out = RunCapped(c, EstateOf(cc.n), cc.cap, cc.fails)]
    /\ UNCHANGED <<runVars, cost, rt>>

CallCappedVm == CallCapped("vm")
CallCappedStorage == CallCapped("storage")
CallCappedNetwork == CallCapped("network")
CallCappedRg == CallCapped("rg")

NextCaps ==
    \/ CallCappedVm
    \/ CallCappedStorage
    \/ CallCappedNetwork
    \/ CallCappedRg

SpecCaps == InitCaps /\ [][NextCaps]_vars

(***************************************************************************)
(* audit_runner.py, main.py: the exposure column of the storage table.     *)
(* An account row is a dict; a key can be missing and a value can be None. *)
(***************************************************************************)
\* a variant of exposure_of that compares without lower()
exposure_of_case_sensitive(a) ==
    IF /\ py_str(GetOrEmpty(a, "public_network_access")) = W_disabled
       /\ py_str(GetOrEmpty(a, "network_default_action")) = W_deny
    THEN "PrivateOnly" ELSE "PublicAllowed"

\* exposure = "PrivateOnly" if (str(a.get("public_network_access","")).lower()=="disabled"
\*            and str(a.get("network_default_action","")).lower()=="deny") else "PublicAllowed"
exposure_of(a) ==
    IF /\ Lower(py_str(GetOrEmpty(a, "public_network_access"))) = W_disabled
       /\ Lower(py_str(GetOrEmpty(a, "network_default_action"))) = W_deny
    THEN "PrivateOnly" ELSE "PublicAllowed"

PnaValues ==
    { StrV(W_Disabled), StrV(W_disabled), StrV(W_DISABLED), StrV(W_Enabled),
      StrV(W_Secured), StrV(<< >>), NoneV }
NdaValues ==
    { StrV(W_Deny), StrV(W_deny), StrV(W_DENY), StrV(W_Allow), StrV(<< >>), NoneV }

\* the account rows: each of the two keys present with one of its values, or missing
AccountRows ==
    { [name |-> StrV(<< "s", "a" >>)] }
    \cup { [name |-> StrV(<< "s", "a" >>), public_network_access |-> x] : x \in PnaValues }
    \cup { [name |-> StrV(<< "s", "a" >>), network_default_action |-> y] : y \in NdaValues }
    \cup { [name |-> StrV(<< "s", "a" >>), public_network_access |-> x,
            network_default_action |-> y] : x \in PnaValues, y \in NdaValues }

InitExposure ==
    /\ RunInit
    /\ rt = RtInit
    /\ cost = CostIdle
    /\ cc \in { [pc |-> "row", a |-> a, exposure |-> ""] : a \in AccountRows }

\* one iteration of "for a in accs" in _render_storage_section
RenderExposure ==
    /\ cc.pc = "row"
    /\ cc' = [cc EXCEPT !.pc = "rendered", !.exposure = exposure_of(cc.a)]
    /\ UNCHANGED <<runVars, cost, rt>>

NextExposure == RenderExposure

SpecExposure == InitExposure /\ [][NextExposure]_vars

(***************************************************************************)
(* rg_reader.py: _top_types.  A Counter is kept as the sequence of its     *)
(* (type, count) entries in insertion order, the order of first occurrence.*)
(***************************************************************************)
MaxItems == 4           \* resources of one resource group
MaxTopK == 2            \* largest k tried; get_rg_details passes k=4

ResourceTypes == { "vm", "disk", "vnet" }

RECURSIVE CounterAdd(_, _)
CounterAdd(c, t) ==
    IF c = << >> THEN << [type |-> t, n |-> 1] >>
    ELSE IF Head(c).type = t THEN << [type |-> t, n |-> Head(c).n + 1] >> \o Tail(c)
    ELSE << Head(c) >> \o CounterAdd(Tail(c), t)

\* Counter(items)
RECURSIVE Counter(_)
Counter(items) ==
    IF items = << >> THEN << >>
    ELSE CounterAdd(Counter(SubSeq(items, 1, Len(items) - 1)), items[Len(items)])

\* a variant of GoesBefore that lets a later entry of equal count go first
GoesBefore_ties_reversed(e, f) == e.n > f.n

\* in a stable descending sort on the count, does the earlier entry e stay
\* before the later entry f?
GoesBefore(e, f) == e.n >= f.n

\* insert f, which came after every entry of sorted, into the sorted entries
RECURSIVE InsertStable(_, _)
InsertStable(f, sorted) ==
    IF sorted = << >> THEN << f >>
    ELSE IF GoesBefore(Head(sorted), f)
         THEN << Head(sorted) >> \o InsertStable(f, Tail(sorted))
         ELSE << f >> \o sorted

RECURSIVE SortedByCount(_)
SortedByCount(c) ==
    IF c = << >> THEN << >>
    ELSE InsertStable(c[Len(c)], SortedByCount(SubSeq(c, 1, Len(c) - 1)))

\* c.most_common(k)
most_common(c, k) == SubSeq(SortedByCount(c), 1, Min(k, Len(c)))

\* [f"{t} ({n})" for t, n in c.most_common(k)]
_top_types(items, k) ==
    LET top == most_common(Counter(items), k)
    IN  [ i \in 1..Len(top) |-> << top[i].type, " (", top[i].n, ")" >> ]

InitTopTypes ==
    /\ RunInit
    /\ rt = RtInit
    /\ cost = CostIdle
    /\ cc \in { [pc |-> "call", items |-> items, k |-> k, out |-> << >>] :
                  items \in SeqsUpTo(ResourceTypes, MaxItems), k \in 0..MaxTopK }

TopTypes ==
    /\ cc.pc = "call"
    /\ cc' = [cc EXCEPT !.pc = "called", !.out = _top_types(cc.items, cc.k)]
    /\ UNCHANGED <<runVars, cost, rt>>

NextTopTypes == TopTypes

SpecTopTypes == InitTopTypes /\ [][NextTopTypes]_vars

(***************************************************************************)
(* SpecInventory: audit_subscription_resources step by step, with the      *)
(* calls it makes recorded in order.                                       *)
(***************************************************************************)
MaxListing == 3         \* resources rm.resources.list() yields
MaxSampleSize == 2      \* largest sample_size tried; run_audit passes 5

\* what rm.resources.list() can yield: types in mixed case, a type of None
ListingPool ==
    { [type |-> StrV(<< "V", "M" >>), name |-> "a"],
      [type |-> StrV(<< "v", "m" >>), name |-> "b"],
      [type |-> StrV(<< "D", "i", "s", "k" >>), name |-> "c"],
      [type |-> NoneV, name |-> "d"] }

\* the outcomes of _query_arg: HAS_ARG is False, client.resources raises, or
\* resp.data is empty or holds rows
ArgOutcomes == { "no_sdk", "raises", "empty", "rows" }

\* resp.data when it holds rows
ArgRows == << [type |-> << "v", "m" >>, count |-> 2, sampleNames |-> << "a", "b" >>] >>

InitInventory ==
    /\ RunInit
    /\ rt = RtInit
    /\ cost = CostIdle
    /\ cc \in { [pc |-> "try_arg", arg |-> g, listing |-> l, arm_raises |-> x,
                 sample_size |-> n, rows |-> << >>, calls |-> << >>] :
                  g \in ArgOutcomes, l \in SeqsUpTo(ListingPool, MaxListing),
                  x \in BOOLEAN, n \in 0..MaxSampleSize }

\* try: rows = _query_arg(...) except: rows = []; if not rows: ...
InventoryQueryArg ==
    /\ cc.pc = "try_arg"
    /\ LET rows == IF cc.arg = "rows" THEN ArgRows ELSE << >>
       IN  cc' = [cc EXCEPT !.rows = rows,
                            !.calls = Append(@, "_query_arg"),
                            !.pc = IF FallbackNeeded(rows) THEN "try_arm" ELSE "done"]
    /\ UNCHANGED <<runVars, cost, rt>>

\* try: rows = _query_arm(...) except: rows = []
InventoryQueryArm ==
    /\ cc.pc = "try_arm"
    /\ cc' = [cc EXCEPT !.rows = IF cc.arm_raises THEN << >>
                                 ELSE _query_arm(cc.listing, cc.sample_size),
                        !.calls = Append(@, "_query_arm"),
                        !.pc = "done"]
    /\ UNCHANGED <<runVars, cost, rt>>

NextInventory ==
    \/ InventoryQueryArg
    \/ InventoryQueryArm

SpecInventory == InitInventory /\ [][NextInventory]_vars

(***************************************************************************)
(* SpecTwoRuns: two POST /run requests accepted and their worker threads   *)
(* running concurrently, reduced to what a run shares with another: the    *)
(* paths it writes, the prompt context of its thread and the module        *)
(* globals of ai_analyzer.  Collectors and faults are left to Spec.        *)
(***************************************************************************)
Runs2 == { "r1", "r2" }

\* reportSystemPrompt / reportAngleText of a request, after _trim_prompt
PromptPairs ==
    { [system |-> "", angle |-> ""],
      [system |-> "sys-A", angle |-> "angle-A"],
      [system |-> "sys-B", angle |-> "angle-B"] }

Subscriptions2 == { "sub-A", "sub-B" }

\* run_id = f"{subscription_id}_{now:%Y%m%d_%H%M%S}_{uuid4().hex[:8]}": the
\* request r stands for its uuid suffix
RunId(sub, t, r) == << sub, t, r >>

\* a path under _outputs_root(): the run directory and the file name in it
PathIn(dir, name) == [dir |-> dir, name |-> name]

Req2None == [subscription_id |-> "", system |-> "", angle |-> "", run_id |-> << >>, seq |-> 0]
Locals2Init == [ctx |-> [system |-> "", angle |-> ""], used |-> << >>]

InitTwoRuns ==
    /\ files = [r \in Runs2 |-> {}]
    /\ pc = [r \in Runs2 |-> "none"]
    /\ req = [r \in Runs2 |-> Req2None]
    /\ faulty = [r \in Runs2 |-> {}]
    /\ locals = [r \in Runs2 |-> Locals2Init]
    /\ clock = 0
    /\ hist = [r \in Runs2 |-> << >>]
    /\ poll = PollIdle
    /\ ai_globals = AiGlobalsInit
    /\ cc = CcIdle
    /\ cost = CostIdle
    /\ rt = RtInit

\* run_async for an accepted request: status.json and inputs.json are written
\* under run_path, then the worker thread is started
TwoAccept(r) ==
    /\ pc[r] = "none"
    /\ \E sub \in Subscriptions2, p \in PromptPairs, t \in { clock } :
         /\ req' = [req EXCEPT ![r] =
                [subscription_id |-> sub, system |-> p.system, angle |-> p.angle,
                 run_id |-> RunId(sub, t, r),
                 seq |-> 1 + Cardinality({ x \in Runs2 : req[x].seq > 0 })]]
         /\ files' = [files EXCEPT ![r] =
                { PathIn(RunId(sub, t, r), << "status.json" >>),
                  PathIn(RunId(sub, t, r), << "inputs.json" >>) }]
    /\ pc' = [pc EXCEPT ![r] = "w_start"]
    /\ UNCHANGED <<faulty, locals, clock, hist, poll, cc, cost, rt, ai_globals>>

\* a variant of WorkerPrompt that reads the prompts of the latest request, as
\* if run_async kept them in a module-level variable
WorkerPrompt_latest_request(r) ==
    LET last == CHOOSE x \in Runs2 : \A y \in Runs2 : req[y].seq <= req[x].seq
    IN  [system |-> req[last].system, angle |-> req[last].angle]

\* report_system_prompt / report_angle_text as _worker passes them to
\* run_audit: the local variables of run_async captured by the closure
WorkerPrompt(r) == [system |-> req[r].system, angle |-> req[r].angle]

\* a variant of set_prompt_context that keeps one context for the process
set_prompt_context_global(store, thread, v) == [ t \in DOMAIN store |-> v ]

\* set_prompt_context: the context belongs to the calling thread
set_prompt_context(store, thread, v) == [store EXCEPT ![thread] = v]

\* the prompt context a narrative call made in a thread reads
current_prompt_context(store, thread) == store[thread]

\* run_audit: set_prompt_context(system_prompt=..., angle_text=...)
TwoSetContext(r) ==
    /\ pc[r] = "w_start"
    /\ LET store == set_prompt_context([x \in Runs2 |-> locals[x].ctx], r, WorkerPrompt(r))
       IN  locals' = [x \in Runs2 |-> [locals[x] EXCEPT !.ctx = store[x]]]
    /\ pc' = [pc EXCEPT ![r] = "ai"]
    /\ UNCHANGED <<files, req, faulty, clock, hist, poll, cc, cost, rt, ai_globals>>

\* one of the six narrative calls of run_audit, made in the worker thread of r
TwoNarrate(r) ==
    /\ pc[r] = "ai"
    /\ locals' = [locals EXCEPT ![r].used =
            Append(@, current_prompt_context([x \in Runs2 |-> locals[x].ctx], r))]
    /\ ai_globals' = _ensure_client(ai_globals, r, TRUE).globals
    /\ pc' = [pc EXCEPT ![r] = IF Len(locals[r].used) + 1 = Len(AiSites) THEN "write_ui" ELSE "ai"]
    /\ UNCHANGED <<files, req, faulty, clock, hist, poll, cc, cost, rt>>

\* run_audit: _write_text(report_path_ui, html); _write_text(report_path, html)
TwoWriteReports(r) ==
    /\ pc[r] = "write_ui"
    /\ files' = [files EXCEPT ![r] = @ \cup
            { PathIn(req[r].run_id, << "report.html" >>),
              PathIn(req[r].run_id, << "subscription_overview_", req[r].subscription_id, ".html" >>) }]
    /\ pc' = [pc EXCEPT ![r] = "write_result"]
    /\ UNCHANGED <<req, faulty, locals, clock, hist, poll, cc, cost, rt, ai_globals>>

\* _worker: _write_json(result_path, results); _write_json(status_path, ...)
TwoWriteResult(r) ==
    /\ pc[r] = "write_result"
    /\ files' = [files EXCEPT ![r] = @ \cup
            { PathIn(req[r].run_id, << "result.json" >>), PathIn(req[r].run_id, << "status.json" >>) }]
    /\ pc' = [pc EXCEPT ![r] = "done"]
    /\ UNCHANGED <<req, faulty, locals, clock, hist, poll, cc, cost, rt, ai_globals>>

\* time passes between two requests or not: run ids of the same second differ
\* by their uuid suffix only
TwoTick ==
    /\ clock < MaxClock
    /\ clock' = clock + 1
    /\ UNCHANGED <<files, pc, req, faulty, locals, hist, poll, cc, cost, rt, ai_globals>>

NextTwoRuns ==
    \/ TwoTick
    \/ \E r \in Runs2 :
         \/ TwoAccept(r)
         \/ TwoSetContext(r)
         \/ TwoNarrate(r)
         \/ TwoWriteReports(r)
         \/ TwoWriteResult(r)

SpecTwoRuns == InitTwoRuns /\ [][NextTwoRuns]_vars

(***************************************************************************)
(* SpecRender: the body of the report, rendered from every combination of  *)
(* missing, empty and non-empty collector outputs and of empty and         *)
(* non-empty narratives.  A rendered section is the sequence of its        *)
(* elements, in document order.                                            *)
(***************************************************************************)
ReportSections == << "inventory", "vm", "storage", "network", "gsc", "rg" >>

\* a collector output as a renderer sees it: None or {} (present = FALSE), or
\* a record with a summary and `rows` detail rows
NoData == [present |-> FALSE, rows |-> 0]
DataWith(n) == [present |-> TRUE, rows |-> n]

\* Python's "not data"
Falsy(d) == ~d.present

H2(text) == [tag |-> "h2", text |-> text]
Para(text) == [tag |-> "p", text |-> text]
Table(n) == [tag |-> "table", text |-> "rows"]

\* f"<div class='ai'>{_html_escape(ai_text or '(No AI narrative)')}</div>"
AiHtml(ai_text) == [tag |-> "div.ai", text |-> IF ai_text = "" THEN "(No AI narrative)" ELSE ai_text]

\* the table of a section, or the paragraph that replaces it when no row was
\* built ("if not trs")
TableOr(n, none_text) == IF n = 0 THEN Para(none_text) ELSE Table(n)

\* inv is the inventory_payload dict of run_audit: never None
_render_inventory_section(ai_text, inv) ==
    << H2("Subscription resource inventory"), AiHtml(ai_text),
       TableOr(inv.rows, "No inventory rows returned.") >>

\* a variant of _render_vm_section that renders nothing without data
_render_vm_section_omitted(ai_text, vm_data) ==
    IF Falsy(vm_data) THEN << >>
    ELSE << H2("Virtual Machines"), AiHtml(ai_text), Para("summary"),
            TableOr(vm_data.rows, "No VMs returned.") >>

_render_vm_section(ai_text, vm_data) ==
    IF Falsy(vm_data) THEN << H2("Virtual Machines"), Para("No VM data.") >>
    ELSE << H2("Virtual Machines"), AiHtml(ai_text), Para("summary"),
            TableOr(vm_data.rows, "No VMs returned.") >>

_render_storage_section(ai_text, storage_data) ==
    IF Falsy(storage_data) THEN << H2("Storage"), Para("No storage data.") >>
    ELSE << H2("Storage"), AiHtml(ai_text), Para("summary"),
            TableOr(storage_data.rows, "No storage accounts returned.") >>

_render_network_section(ai_text, net_data) ==
    IF Falsy(net_data) THEN << H2("Network"), Para("No network data.") >>
    ELSE << H2("Network"), AiHtml(ai_text), Para("summary"),
            TableOr(net_data.rows, "No VNets returned.") >>

_render_gsc_section(ai_text, gsc_data) ==
    IF Falsy(gsc_data) THEN << H2("Governance, Security &amp; Cost"), Para("No data.") >>
    ELSE << H2("Governance, Security &amp; Cost"), AiHtml(ai_text), Para("headline"),
            [tag |-> "details", text |-> "Raw signals"] >>

_render_rg_section(ai_text, rg_data) ==
    IF Falsy(rg_data) THEN << H2("Resource Groups"), Para("No RG data.") >>
    ELSE << H2("Resource Groups"), AiHtml(ai_text), Para("summary"),
            TableOr(rg_data.rows, "No RGs returned.") >>

\* the count in the summary line of the network section:
\* f"VNets(sampled): {int(s.get('vnets',0))}", s being net_data["summary"]
RenderedVnetCount(net_data) ==
    IF "vnets" \in DOMAIN net_data.summary THEN net_data.summary.vnets ELSE 0

\* the count in the summary line of the resource-group section:
\* f"Resource Groups: {int(s.get('count', len(rgs)))}", rgs being the rows shown
RenderedRgCount(rg_data) ==
    IF "count" \in DOMAIN rg_data.summary THEN rg_data.summary.count
    ELSE Len(rg_data.groups)

\* body = _render_prompt_section(...) + _render_inventory_section(...) + ...
ReportBody(ai, data) ==
    << H2("AI prompt context") >>
    \o _render_inventory_section(ai["inventory"], data["inventory"])
    \o _render_vm_section(ai["vm"], data["vm"])
    \o _render_storage_section(ai["storage"], data["storage"])
    \o _render_network_section(ai["network"], data["network"])
    \o _render_gsc_section(ai["gsc"], data["gsc"])
    \o _render_rg_section(ai["rg"], data["rg"])

\* what reaches the renderers: the narratives returned by _safe_ai and the
\* collector outputs
NarrativeTexts == { "", "Narrative." }
DataShapes(section) ==
    IF section = "inventory" THEN { DataWith(n) : n \in 0..1 }
    ELSE { NoData } \cup { DataWith(n) : n \in 0..1 }

InitRender ==
    /\ RunInit
    /\ rt = RtInit
    /\ cost = CostIdle
    /\ \E ai \in [Range(ReportSections) -> NarrativeTexts] :
        \E data \in { d \in [Range(ReportSections) -> { NoData } \cup { DataWith(n) : n \in 0..1 }] :
                        \A x \in Range(ReportSections) : d[x] \in DataShapes(x) } :
            cc = [pc |-> "collected", ai |-> ai, data |-> data, body |-> << >>]

RenderReport ==
    /\ cc.pc = "collected"
    /\ cc' = [cc EXCEPT !.pc = "rendered", !.body = ReportBody(cc.ai, cc.data)]
    /\ UNCHANGED <<runVars, cost, rt>>

NextRender == RenderReport

SpecRender == InitRender /\ [][NextRender]_vars

(***************************************************************************)
(* SpecLive: the run pipeline of Spec under fair scheduling of the worker  *)
(* thread, with the one statement of _worker that runs outside its try     *)
(* block allowed to raise as well: the _write_json of the except clause.   *)
(***************************************************************************)
\* _write_json(status_path, {... "failed" ...}) raises inside the except
\* clause: in mkdir or when the file is opened (status.json untouched), or
\* while the text is written (status.json emptied).  Nothing catches it: the
\* thread ends.
WriteFailedRaises(r) ==
    /\ pc[r] = "except"
    /\ \E emptied \in BOOLEAN :
         files' = [files EXCEPT ![r]["status.json"] = IF emptied THEN Truncated ELSE @]
    /\ Goto(r, "died")
    /\ UNCHANGED <<req, faulty, locals, clock, hist, poll, cc, cost, rt, ai_globals>>

\* the steps of the worker thread of run r
WorkerStep(r) ==
    \/ StartAudit(r)
    \/ CollectInventory(r)
    \/ CollectVm(r)
    \/ CollectStorage(r)
    \/ CollectNetwork(r)
    \/ CollectRg(r)
    \/ CollectGsc(r)
    \/ Narrate(r)
    \/ Render(r)
    \/ WriteReportUi(r)
    \/ WriteReportArchive(r)
    \/ ReturnResults(r)
    \/ WriteResultOpen(r)
    \/ WriteResultText(r)
    \/ ReadStarted(r)
    \/ WriteSucceededOpen(r)
    \/ WriteSucceededText(r)
    \/ WriteFailedOpen(r)
    \/ WriteFailedText(r)
    \/ WriteFailedRaises(r)

NextLive ==
    \/ Tick
    \/ PollReadResult
    \/ \E r \in Runs :
         \/ RunAsync(r)
         \/ PollReadStatus(r)
         \/ WorkerStep(r)

\* the worker thread is scheduled fairly, and every call it makes returns or
\* raises: a step of the worker that can be taken is eventually taken
SpecLive == Init /\ [][NextLive]_vars /\ \A r \in Runs : WF_vars(WorkerStep(r))

(***************************************************************************)
(* SpecParse: _parse_monthly_rows on one row, for every row of up to       *)
(* MaxRowLen values drawn from the kinds of value a cost row can hold.     *)
(***************************************************************************)
MaxRowLen == 3

S_USD == << "U", "S", "D" >>
S_1_5e_07 == << "1", ".", "5", "e", "-", "0", "7" >>

RowValues ==
    { StrV(M_2026_01), StrV(M_2025_12_date), StrV(M_2025_11_slash), StrV(M_2026_06_compact),
      IntV(202606), IntV(7), FloatV(12500), FloatV(-40000), FloatV(40000),
      SciFloatV(0, S_1_5e_07), StrV(S_USD), BoolV(TRUE), NoneV }

\* the rows: lists of values, and one row that is no list
ParseRows ==
    { ListRow(vals) : vals \in SeqsUpTo(RowValues, MaxRowLen) } \cup { [t |-> "dict", vals |-> << >>] }

InitParse ==
    /\ RunInit
    /\ rt = RtInit
    /\ cost = CostIdle
    /\ cc \in { [pc |-> "row", row |-> r, out |-> EmptyDict] : r \in ParseRows }

ParseRow ==
    /\ cc.pc = "row"
    /\ cc' = [cc EXCEPT !.pc = "parsed", !.out = _parse_monthly_rows(<< cc.row >>)]
    /\ UNCHANGED <<runVars, cost, rt>>

NextParse == ParseRow

SpecParse == InitParse /\ [][NextParse]_vars

(***************************************************************************)
(* SpecStorage: get_storage_details on every subscription of up to         *)
(* MaxAccounts storage accounts, each with its public network access and   *)
(* the default action of its network rules, which may fail to be fetched.  *)
(***************************************************************************)
MaxAccounts == 2

StorageAccountKinds ==
    { [name |-> "sa", public_network_access |-> pna, default_action |-> nda,
       versioning |-> FALSE, used |-> 1] :
        pna \in { StrV(W_Disabled), StrV(W_DISABLED), StrV(W_Enabled) },
        nda \in { StrV(W_Deny), StrV(W_Allow), StrV(<< >>) } }

InitStorage ==
    /\ RunInit
    /\ rt = RtInit
    /\ cost = CostIdle
    /\ \E accs \in SeqsUpTo(StorageAccountKinds, MaxAccounts),
          fails \in SUBSET { "st.get_properties" } :
         cc = [pc |-> "idle", est |-> [Estate EXCEPT !.accounts = accs],
               fails |-> fails, out |-> NoValue]

\* storage_data = get_storage_details(subscription_id=..., credential=...)
CallStorage ==
    /\ cc.pc = "idle"
    /\ cc' = [cc EXCEPT !.pc = "called",
                        !.out = get_storage_details(cc.est, DefaultMaxAccounts, cc.fails)]
    /\ UNCHANGED <<runVars, cost, rt>>

NextStorage == CallStorage

SpecStorage == InitStorage /\ [][NextStorage]_vars

(***************************************************************************)
(* Properties of the run pipeline (Spec) and of the collectors             *)
(* (SpecCollector)                                                         *)
(***************************************************************************)
StatusFile(r) == files[r]["status.json"]
IsTerminalDoc(c) == c.kind = "doc" /\ c.doc.status \in { "succeeded", "failed" }
StatusValues(h) == [ i \in 1..Len(h) |-> h[i].status ]

\* C1: a run in which exactly one collector API call raises still ends with
\* the status succeeded and a written report.
C1_OneApiFailureStillSucceeds ==
    \A r \in Runs :
        (pc[r] = "done" /\ Cardinality(faulty[r]) = 1 /\ faulty[r] \subseteq ApiSites)
        => /\ StatusFile(r).kind = "doc"
           /\ StatusFile(r).doc.status = "succeeded"
           /\ files[r]["report.html"].kind = "doc"

\* C2: whichever API calls of a collector raise, the collector returns its
\* record and raises nothing to its caller.
C2_CollectorNeverRaises ==
    cc.pc = "called" => ~cc.out.raised

\* C3: the status values written for a run are running, then at most one of
\* succeeded or failed; a complete status document on disk is the last one
\* written; and once the document on disk is terminal no step changes it or
\* writes another.
C3_StatusLifecycle ==
    [][\A r \in Runs :
         /\ StatusValues(hist'[r]) \in { << >>, << "running" >>,
                                         << "running", "succeeded" >>,
                                         << "running", "failed" >> }
         /\ (StatusFile(r)'.kind = "doc"
               => Len(hist'[r]) > 0 /\ StatusFile(r)'.doc = hist'[r][Len(hist'[r])])
         /\ (IsTerminalDoc(StatusFile(r))
               => StatusFile(r)' = StatusFile(r) /\ hist'[r] = hist[r])]_vars

\* C3 happens: a run has gone running -> succeeded and a poll made afterwards
\* returned the succeeded document.
C3_Witness ==
    /\ pc["r1"] = "done"
    /\ StatusValues(hist["r1"]) = << "running", "succeeded" >>
    /\ poll.resp.code = 200
    /\ poll.resp.status.status = "succeeded"

C5_ResultIffSucceeded ==
    poll.resp.code = 200
    => ((poll.resp.result # PyNone) <=> (poll.resp.status.status = "succeeded"))

\* C6: what a poll reads from status.json is never an emptied or partly
\* written file.
C6_NoPartialStatusRead ==
    poll.seen # Truncated

CostRows == IF cost.q.raised THEN << >> ELSE _extract_cost_rows(cost.q.value)

\* the k-th of the 5 consecutive calendar months ending at month tm, counted
\* in months since year 0
WindowMonth(tm, k) ==
    LET n == tm.year * 12 + (tm.month - 1) - (5 - k)
    IN  [year |-> n \div 12, month |-> (n % 12) + 1]

\* the value parsed for a month key, 0 when the rows have none
ParsedTotal(key) ==
    LET by_month == _parse_monthly_rows(CostRows)
    IN  IF key \in DOMAIN by_month THEN by_month[key] ELSE 0

\* C8: whatever the cost query gave (rows, no rows, an error, no SDK), the
\* months list of the cost sub-record has exactly 5 entries.
C8_AlwaysFiveMonths ==
    cost.pc = "done" => Len(cost.out.months) = 5

\* C9 as stated: with at least one row returned, months is the 5-month
\* window ending at the current month, in order, and each total is the value
\* parsed for its month, 0 when the month has no row.
C9_WindowTotalsExact ==
    (cost.pc = "done" /\ cost.has_cost /\ CostRows # << >>)
    => /\ Len(cost.out.months) = 5
       /\ \A k \in 1..5 :
            /\ cost.out.months[k].month = MonthKey(WindowMonth(cost.this_month, k))
            /\ cost.out.months[k].total = ParsedTotal(cost.out.months[k].month)

\* C9 amended: with at least one row returned, months is the 5-month window
\* ending at the current month, in order (also across a year boundary), and
\* each total is the value parsed for its month rounded to two decimals, 0
\* when the month has no row; months outside the window do not appear.
C9_WindowTotalsRounded ==
    (cost.pc = "done" /\ cost.has_cost /\ CostRows # << >>)
    => /\ Len(cost.out.months) = 5
       /\ \A k \in 1..5 :
            LET e == cost.out.months[k]
            IN  /\ e.month = MonthKey(WindowMonth(cost.this_month, k))
                /\ e.total % 10 = 0
                /\ 2 * Abs(e.total - ParsedTotal(e.month)) <= 10

M_2025_10_key == << "2", "0", "2", "5", "-", "1", "0" >>
M_2025_12_key == << "2", "0", "2", "5", "-", "1", "2" >>

\* C9 happens: the current month is 2026-02, so the window starts in 2025;
\* the rows hold 12.344 for 2025-12 (reported as 12.34) and a row for
\* 2025-06, outside the window; 2025-10 has no row and is reported as 0.
C9_Witness ==
    /\ cost.pc = "done"
    /\ cost.has_cost
    /\ cost.this_month = [year |-> 2026, month |-> 2]
    /\ Len(CostRows) = 2
    /\ ParsedTotal(M_2025_12_key) = 12344
    /\ M_2025_06 \in DOMAIN _parse_monthly_rows(CostRows)
    /\ cost.out.months[1] = [month |-> M_2025_10_key, total |-> 0]
    /\ cost.out.months[3] = [month |-> M_2025_12_key, total |-> 12340]

(***************************************************************************)
(* Properties of _retry (SpecRetry)                                        *)
(***************************************************************************)
\* C10: _retry makes at most 7 calls; it returns the result of the first call
\* that returns, every call before it having raised a throttling error and
\* been followed by one sleep; a non-throttling error is raised at once, with
\* no sleep after it and no further call; the loop goes on only after a
\* throttling error; after 7 throttled calls the last error is raised; and
\* once _retry has returned or raised, nothing more is called.
C10_RetryPolicy ==
    /\ [](/\ rt.calls <= 7
          /\ (rt.pc = "returned"
                => /\ rt.outcome = Return([rows_from_call |-> rt.calls])
                   /\ Len(rt.slept) = rt.calls - 1
                   /\ (rt.calls > 1 => _is_throttle_exc(rt.last)))
          /\ (rt.pc = "raised"
                => /\ rt.outcome = Raise(rt.last)
                   /\ IF _is_throttle_exc(rt.last)
                      THEN rt.calls = 7
                      ELSE Len(rt.slept) = rt.calls - 1)
          /\ (rt.pc = "loop" /\ rt.calls > 0 => _is_throttle_exc(rt.last)))
    /\ [][rt.pc # "loop" => rt' = rt]_vars

\* C10 happens: 7 calls were made, each throttled, and the last error raised.
C10_WitnessExhausted ==
    /\ rt.pc = "raised"
    /\ rt.calls = 7
    /\ rt.outcome = Raise(E_Http429)

(***************************************************************************)
(* Properties of the capped collectors (SpecCaps)                          *)
(***************************************************************************)
\* the detailed rows of a returned collector record
DetailRows(c, rec) ==
    CASE c = "vm"      -> rec.vms
      [] c = "storage" -> rec.accounts
      [] c = "network" -> rec.vnets
      [] c = "rg"      -> rec.groups

\* the total the summary of a returned collector record reports
ReportedTotal(c, rec) ==
    CASE c = "vm"      -> rec.summary.total_vms_all
      [] c = "storage" -> rec.summary.total_accounts
      [] c = "network" -> rec.summary.counts.vnets
      [] c = "rg"      -> rec.summary.total_rgs

CapReturned == cc.pc = "called" /\ ~cc.out.raised

\* C11: a capped collector called with a cap k >= 0 never returns more than
\* k detailed rows, however many resources the subscription holds.
C11_RowsWithinCap ==
    CapReturned => Len(DetailRows(cc.collector, cc.out.value)) <= cc.cap

\* C12: the total a capped collector reports in its summary is the number of
\* resources of the subscription, also when that number is above the cap.
C12_TrueTotalReported ==
    CapReturned => ReportedTotal(cc.collector, cc.out.value) = cc.n

\* C13: a returned get_vm_details record has total_vms_all >= Len(vms),
\* Len(vms) <= max_vms and total_vms = Len(vms); total_vms_all is the number
\* of VMs of the subscription.
C13_VmTotals ==
    (CapReturned /\ cc.collector = "vm")
    => LET rec == cc.out.value
       IN  /\ rec.summary.total_vms_all >= Len(rec.vms)
           /\ Len(rec.vms) <= cc.cap
           /\ rec.summary.total_vms = Len(rec.vms)
           /\ rec.summary.total_vms_all = cc.n
           /\ Len(rec.vms) = (IF cc.n <= cc.cap THEN cc.n ELSE cc.cap)

\* C13 happens: 3 VMs and a cap of 2: two detailed rows, total_vms_all 3.
C13_Witness ==
    /\ CapReturned
    /\ cc.collector = "vm"
    /\ cc.n = 3
    /\ cc.cap = 2
    /\ Len(cc.out.value.vms) = 2
    /\ cc.out.value.summary.total_vms_all = 3

(***************************************************************************)
(* Properties of the exposure classification (SpecExposure)                *)
(***************************************************************************)
\* s equals the lower-case word w when the case of its letters is ignored
SameWordIgnoringCase(s, w) ==
    /\ Len(s) = Len(w)
    /\ \A i \in 1..Len(w) :
         \/ s[i] = w[i]
         \/ \E k \in 1..26 : LowerChars[k] = w[i] /\ UpperChars[k] = s[i]

\* the text of a field of an account row: "" when missing, "None" for None
FieldText(a, key) ==
    IF key \notin DOMAIN a THEN << >>
    ELSE IF a[key] = NoneV THEN << "N", "o", "n", "e" >>
    ELSE a[key].s

\* C14: an account row is classified PrivateOnly exactly when its
\* public_network_access is "disabled" and its network_default_action is
\* "deny", letter case ignored; every other row, with a field empty, None or
\* missing included, is classified PublicAllowed.
C14_ExposureClassification ==
    cc.pc = "rendered"
    => /\ cc.exposure \in { "PrivateOnly", "PublicAllowed" }
       /\ (cc.exposure = "PrivateOnly"
             <=> /\ SameWordIgnoringCase(FieldText(cc.a, "public_network_access"),
                                         << "d", "i", "s", "a", "b", "l", "e", "d" >>)
                 /\ SameWordIgnoringCase(FieldText(cc.a, "network_default_action"),
                                         << "d", "e", "n", "y" >>))

\* C14 happens: "Disabled" with "DENY" is PrivateOnly ...
C14_WitnessPrivate ==
    /\ cc.pc = "rendered"
    /\ "public_network_access" \in DOMAIN cc.a
    /\ "network_default_action" \in DOMAIN cc.a
    /\ cc.a.public_network_access = StrV(W_Disabled)
    /\ cc.a.network_default_action = StrV(W_DENY)
    /\ cc.exposure = "PrivateOnly"

(***************************************************************************)
(* Properties of _top_types (SpecTopTypes)                                 *)
(***************************************************************************)
Occurrences(items, t) == Cardinality({ j \in 1..Len(items) : items[j] = t })
FirstOccurrence(items, t) == CHOOSE j \in 1..Len(items) :
                                 items[j] = t /\ \A h \in 1..(j - 1) : items[h] # t
\* type t ranks before type u: more occurrences, or as many and seen first
RanksBefore(items, t, u) ==
    \/ Occurrences(items, t) > Occurrences(items, u)
    \/ /\ Occurrences(items, t) = Occurrences(items, u)
       /\ FirstOccurrence(items, t) < FirstOccurrence(items, u)

\* C15: _top_types(items, k) returns at most k entries, one per type, each
\* with the number of occurrences of its type, in descending order of count
\* with equal counts in order of first occurrence; the entries are the k best
\* ranked types (all of them when there are fewer than k).  The output is a
\* function of the input sequence alone.
C15_TopTypesOrder ==
    cc.pc = "called"
    => LET out == cc.out
           items == cc.items
           present == { items[j] : j \in 1..Len(items) }
           shown == { out[i][1] : i \in 1..Len(out) }
       IN  /\ Len(out) <= cc.k
           /\ Len(out) = (IF Cardinality(present) <= cc.k
                          THEN Cardinality(present) ELSE cc.k)
           /\ \A i \in 1..Len(out) :
                /\ out[i][1] \in present
                /\ out[i][3] = Occurrences(items, out[i][1])
           /\ \A i, j \in 1..Len(out) :
                i < j => RanksBefore(items, out[i][1], out[j][1])
           /\ \A t \in present \ shown, u \in shown : RanksBefore(items, u, t)

\* C15 happens: vm, disk, vnet, disk with k = 2: disk has 2, vm and vnet are
\* tied at 1 and vm, seen first, takes the second place; vnet is left out.
C15_WitnessTie ==
    /\ cc.pc = "called"
    /\ cc.items = << "vm", "disk", "vnet", "disk" >>
    /\ cc.k = 2
    /\ cc.out = << << "disk", " (", 2, ")" >>, << "vm", " (", 1, ")" >> >>

(***************************************************************************)
(* Properties of the inventory fallback (SpecInventory)                    *)
(***************************************************************************)
FallbackRan == \E i \in 1..Len(cc.calls) : cc.calls[i] = "_query_arm"

\* the type of a listed resource as text, "" for None
ListedType(r) == IF r.type = NoneV THEN << >> ELSE r.type.s

NoUpperCase(w) == \A i \in 1..Len(w) : \A k \in 1..26 : w[i] # UpperChars[k]

\* the rows hold one row per distinct lower-cased type of the listing, with
\* its count and at most sample_size names of resources of that type
RowsGroupListing(rows, listing, sample_size) ==
    /\ \A j \in 1..Len(listing) :
         \E i \in 1..Len(rows) : SameWordIgnoringCase(ListedType(listing[j]), rows[i].type)
    /\ \A i, h \in 1..Len(rows) : rows[i].type = rows[h].type => i = h
    /\ \A i \in 1..Len(rows) :
         LET members == { j \in 1..Len(listing) :
                            SameWordIgnoringCase(ListedType(listing[j]), rows[i].type) }
         IN  /\ NoUpperCase(rows[i].type)
             /\ members # {}
             /\ rows[i].count = Cardinality(members)
             /\ Len(rows[i].sampleNames) <= sample_size
             /\ \A n \in 1..Len(rows[i].sampleNames) :
                  \E j \in members : listing[j].name = rows[i].sampleNames[n]

\* when the fallback runs and in what order the two queries are made
FallbackOnlyWhenNoRows ==
    /\ (cc.pc = "done" => (FallbackRan <=> cc.arg # "rows"))
    /\ cc.calls \in { << >>, << "_query_arg" >>, << "_query_arg", "_query_arm" >> }
    /\ (cc.pc = "done" /\ cc.arg = "rows" => cc.rows = ArgRows)

\* C16 as stated: the fallback runs exactly when the graph query raised or
\* gave no rows, and whenever it runs over a non-empty subscription the
\* returned rows are non-empty, one per lower-cased type.
C16_FallbackAlwaysYieldsRows ==
    /\ FallbackOnlyWhenNoRows
    /\ (cc.pc = "done" /\ FallbackRan /\ cc.listing # << >>
          => /\ cc.rows # << >>
             /\ RowsGroupListing(cc.rows, cc.listing, cc.sample_size))

\* C16 amended: the fallback runs exactly when the graph query raised or gave
\* no rows (a missing graph SDK gives no rows), never after it gave rows;
\* when the fallback's listing completes, the rows are one per lower-cased
\* type with its count and at most sample_size names, non-empty for a
\* non-empty subscription; when the listing raises, the rows are empty.
C16_FallbackWhenNoRows ==
    /\ FallbackOnlyWhenNoRows
    /\ (cc.pc = "done" /\ FallbackRan /\ ~cc.arm_raises
          => /\ (cc.listing # << >> => cc.rows # << >>)
             /\ RowsGroupListing(cc.rows, cc.listing, cc.sample_size))
    /\ (cc.pc = "done" /\ FallbackRan /\ cc.arm_raises => cc.rows = << >>)

\* C16 happens: the graph query raised, the listing held VM, vm and Disk, and
\* with sample_size 1 the rows are vm (2, one name) and disk (1).
C16_Witness ==
    /\ cc.pc = "done"
    /\ cc.arg = "raises"
    /\ ~cc.arm_raises
    /\ cc.sample_size = 1
    /\ Len(cc.listing) = 3
    /\ cc.rows = << [type |-> << "v", "m" >>, count |-> 2, sampleNames |-> << "a" >>],
                    [type |-> << "d", "i", "s", "k" >>, count |-> 1,
                     sampleNames |-> << "c" >>] >>


C20_NoSharedMutableState ==
    /\ \A r \in DOMAIN files :
        /\ \A f \in files[r] : f.dir = req[r].run_id
        /\ \A o \in DOMAIN files \ { r } : files[r] \cap files[o] = {}
    /\ ai_globals.written_by = {}


\* the narratives of a run whose call raised are the placeholder made of
\* `prefix`, the error message and ")"; a run leaves the narrative calls only
\* after all six were made, and never through the except clause of _worker
\* because of a narrative call
NarrativeFallback(prefix) ==
    \A r \in Runs :
        /\ \A i \in 1..Len(locals[r].ai) :
              /\ AiSites[i] \in faulty[r] =>
                    locals[r].ai[i] = [placeholder |-> TRUE, prefix |-> prefix, error |-> AiSites[i]]
              /\ AiSites[i] \notin faulty[r] => ~locals[r].ai[i].placeholder
        /\ Len(locals[r].ai) \in 1..(Len(AiSites) - 1) => pc[r] = "ai"
        /\ pc[r] = "render" => Len(locals[r].ai) = Len(AiSites)
        /\ locals[r].err \notin Range(AiSites)

\* C18 as stated: the placeholder reads (narrative unavailable: <error>), the
\* remaining narrative calls are made and the run is not aborted.
C18_PlaceholderAsStated == NarrativeFallback("(narrative unavailable: ")

\* C18: when the narrative call of a section raises, its narrative is
\* (AI narrative unavailable: <error>), the narrative calls of the remaining
\* sections are still made and the run is not aborted.
C18_PlaceholderAndGoOn == NarrativeFallback("(AI narrative unavailable: ")

\* the narrative call of the second section raised, the four after it were
\* made and returned, and the run succeeded
C18_Witness ==
    /\ pc["r1"] = "done"
    /\ faulty["r1"] = { "ai.vm" }
    /\ Len(locals["r1"].ai) = Len(AiSites)
    /\ locals["r1"].ai[2].placeholder
    /\ ~locals["r1"].ai[3].placeholder
    /\ StatusFile("r1").kind = "doc"
    /\ StatusFile("r1").doc.status = "succeeded"


\* the headers of the six sections, as the renderers write them
SectionHeaders ==
    { "Subscription resource inventory", "Virtual Machines", "Storage", "Network",
      "Governance, Security &amp; Cost", "Resource Groups" }

\* the index in the body of the header `h`, or 0
HeaderAt(body, h) ==
    IF \E i \in 1..Len(body) : body[i] = [tag |-> "h2", text |-> h]
    THEN CHOOSE i \in 1..Len(body) : body[i] = [tag |-> "h2", text |-> h]
    ELSE 0

\* C19: a rendered report has the header of each of the six sections exactly
\* once, whatever the collector outputs and the narratives, and every header
\* is followed by an element of its section: a section without data shows a
\* "No ... data." paragraph under its header.
C19_EverySectionRendered ==
    cc.pc = "rendered" =>
        \A h \in SectionHeaders :
            /\ Cardinality({ i \in 1..Len(cc.body) : cc.body[i] = [tag |-> "h2", text |-> h] }) = 1
            /\ HeaderAt(cc.body, h) < Len(cc.body)
            /\ cc.body[HeaderAt(cc.body, h) + 1].tag # "h2"

\* a report rendered with every collector output but the inventory missing
\* and with no narrative
C19_Witness ==
    /\ cc.pc = "rendered"
    /\ \A x \in Range(ReportSections) \ { "inventory" } : cc.data[x] = NoData
    /\ cc.data["inventory"].rows = 0
    /\ \A x \in Range(ReportSections) : cc.ai[x] = ""
    /\ cc.body[HeaderAt(cc.body, "Virtual Machines") + 1] = [tag |-> "p", text |-> "No VM data."]


\* C21: a run whose worker thread has been started eventually has a terminal
\* status document (succeeded or failed) on disk.
C21_EventuallyTerminal ==
    \A r \in Runs : (pc[r] = "w_start") ~> IsTerminalDoc(StatusFile(r))


\* the four sub-queries of the snapshot and the API calls each one makes
SubQueries == { "management_group", "policy", "cost", "defender" }
SubQueryCalls(q) ==
    CASE q = "management_group" -> { "gsc.mg_graph" }
      [] q = "policy" -> { "gsc.policy_list" }
      [] q = "cost" -> { "gsc.cost_query" }
      [] q = "defender" -> { "gsc.pricings", "gsc.secure_scores", "gsc.alerts" }

\* C22: whichever calls of get_governance_security_cost_details raise, the
\* snapshot is returned; for each sub-query, the sub-records of the other
\* sub-queries (and the subscription record) are the ones returned when the
\* calls of that sub-query do not raise; and a failed sub-query shows in its
\* own sub-record only, as its defaults and a note.
C22_SubQueriesIndependent ==
    (cc.pc = "called" /\ cc.collector = "gsc") =>
        /\ ~cc.out.raised
        /\ \A q \in SubQueries :
             LET healthy == get_governance_security_cost_details(
                                Estate, SdkAll, cc.fails \ SubQueryCalls(q))
             IN  /\ ~healthy.raised
                 /\ \A k \in (SubQueries \cup { "subscription" }) \ { q } :
                       cc.out.value[k] = healthy.value[k]
        /\ "gsc.mg_graph" \in cc.fails =>
              /\ cc.out.value.management_group.path = << >>
              /\ cc.out.value.management_group.leaf_mg = ""
              /\ cc.out.value.management_group.note = "Failed to resolve management group path"
        /\ "gsc.policy_list" \in cc.fails =>
              /\ cc.out.value.policy.assignment_count = 0
              /\ cc.out.value.policy.note = "Failed to list policy assignments"
        /\ "gsc.cost_query" \in cc.fails =>
              /\ cc.out.value.cost.months = << >>
              /\ cc.out.value.cost.note = "Failed to query monthly cost totals"
        /\ "gsc.secure_scores" \in cc.fails => cc.out.value.defender.secure_score = PyNone
        /\ "gsc.alerts" \in cc.fails => cc.out.value.defender.alerts_last_30d = PyNone

\* the cost query raised and the policy listing did as well: the snapshot is
\* returned with the management-group path and the Defender posture intact
C22_Witness ==
    /\ cc.pc = "called"
    /\ cc.collector = "gsc"
    /\ cc.fails = { "gsc.cost_query", "gsc.policy_list" }
    /\ ~cc.out.raised
    /\ cc.out.value.cost.months = << >>
    /\ cc.out.value.management_group.path = Estate.mg_path
    /\ cc.out.value.defender.note = "Defender posture retrieved from Security Center."


\* C23: every status document written for a run has an "error" field exactly
\* when its status is failed.
C23_ErrorIffFailed ==
    \A r \in Runs :
        \A i \in 1..Len(hist[r]) :
            ("error" \in DOMAIN hist[r][i]) <=> (hist[r][i].status = "failed")

\* a run has ended with the documents running and failed written, the failed
\* one carrying the error
C23_Witness ==
    /\ pc["r1"] = "done"
    /\ Len(hist["r1"]) = 2
    /\ hist["r1"][2].status = "failed"
    /\ hist["r1"][2].error = "vm.list_all"

\* C24: whenever the status document of a run reads succeeded, its six
\* collectors have returned, report.html and the archival copy hold the same
\* complete document, and result.json is completely written.
C24_SucceededAfterArtifacts ==
    \A r \in Runs :
        (StatusFile(r).kind = "doc" /\ StatusFile(r).doc.status = "succeeded") =>
            /\ Len(locals[r].executed) = Len(CollectorNames)
            /\ files[r]["report.html"].kind = "doc"
            /\ files[r]["archive.html"] = files[r]["report.html"]
            /\ files[r]["result.json"].kind = "doc"
            /\ files[r]["result.json"].doc = locals[r].results

\* a run reads succeeded, with one narrative replaced by its placeholder in
\* both copies of the report
C24_Witness ==
    /\ StatusFile("r1").kind = "doc"
    /\ StatusFile("r1").doc.status = "succeeded"
    /\ faulty["r1"] = { "ai.storage" }
    /\ files["r1"]["archive.html"].kind = "doc"
    /\ files["r1"]["archive.html"].doc.narratives[3].placeholder

\* C30: the terminal status document of a run has the started_utc of the
\* run's running document, whether the run succeeded or failed, and the
\* inputs document is the one written at submission.
C30_StartedKept ==
    \A r \in Runs :
        /\ Len(hist[r]) = 2 =>
              /\ "started_utc" \in DOMAIN hist[r][2]
              /\ hist[r][2].started_utc = hist[r][1].started_utc
        /\ Len(hist[r]) >= 1 =>
              files[r]["inputs.json"] =
                  Doc([subscription_id |-> req[r].subscription_id,
                       report_angle_text |-> req[r].angle,
                       started_utc |-> hist[r][1].started_utc])


\* the sum of a sequence of delays
RECURSIVE TotalSlept(_)
TotalSlept(d) == IF d = << >> THEN 0 ELSE d[1] + TotalSlept(Tail(d))

\* C25: in hundredths of a second, with b = 100: the delay slept after the
\* failed attempt i (from 0) is b * 2^i plus a jitter of at least 0 and less
\* than 35; at most 7 delays are slept; their total is below b * 2^7 + 7 * 35.
C25_BackoffDelays ==
    /\ Len(rt.slept) <= 7
    /\ \A k \in 1..Len(rt.slept) :
          /\ rt.slept[k] >= 100 * 2^(k - 1)
          /\ rt.slept[k] < 100 * 2^(k - 1) + 35
    /\ TotalSlept(rt.slept) < 100 * 2^7 + 7 * 35

\* seven throttled attempts, each followed by its delay, the longest jitter
\* drawn every time
C25_Witness ==
    /\ rt.pc = "raised"
    /\ Len(rt.slept) = 7
    /\ \A k \in 1..7 : rt.slept[k] = 100 * 2^(k - 1) + 34


(***************************************************************************)
(* Properties of _parse_monthly_rows on one row (SpecParse)                *)
(***************************************************************************)
\* the text of a value that can name a month: a string, or an integer as it
\* prints, with "/" read as "-"; << >> for the other values
MonthText(v) ==
    IF v.t = "str" THEN ReplaceChar(v.s, "/", "-")
    ELSE IF v.t = "int" THEN IntToStr(v.n)
    ELSE << >>

AllDigits(s) == \A i \in 1..Len(s) : s[i] \in { "0", "1", "2", "3", "4", "5", "6", "7", "8", "9" }

IsYearMonth(s) ==
    /\ Len(s) = 7
    /\ s[5] = "-"
    /\ AllDigits(SubSeq(s, 1, 4))
    /\ AllDigits(SubSeq(s, 6, 7))

\* the forms YYYY-MM, YYYY-MM-DD and YYYYMM
IsMonthForm(v) ==
    LET s == MonthText(v)
    IN  \/ IsYearMonth(s)
        \/ Len(s) = 10 /\ IsYearMonth(SubSeq(s, 1, 7)) /\ s[8] = "-" /\ AllDigits(SubSeq(s, 9, 10))
        \/ Len(s) = 6 /\ AllDigits(s)

\* the month a value of month form names, as YYYY-MM
MonthNamed(v) ==
    LET s == MonthText(v)
    IN  IF Len(s) = 6 THEN SubSeq(s, 1, 4) \o << "-" >> \o SubSeq(s, 5, 6)
        ELSE SubSeq(s, 1, 7)

\* the numeric values of a row, in thousandths: numbers and digit strings
IsNumeric(v) ==
    \/ v.t \in { "int", "float", "float_sci" }
    \/ v.t = "str" /\ Len(v.s) > 0 /\ AllDigits(v.s)

NumericOf(v) ==
    IF v.t = "int" THEN 1000 * v.n
    ELSE IF v.t = "str" THEN 1000 * StrToInt(v.s)
    ELSE v.n

Magnitude(x) == IF x < 0 THEN 0 - x ELSE x

\* C26: a parsed row with a value of month form and a numeric value yields
\* one entry: the month named by the first value of month form, with a
\* numeric value of the row of the largest magnitude; any other row yields
\* nothing.
C26_MonthAndLargestNumber ==
    (cc.pc = "parsed" /\ cc.row.t = "list") =>
        LET vals == cc.row.vals
            months == { i \in 1..Len(vals) : IsMonthForm(vals[i]) }
            nums == { i \in 1..Len(vals) : IsNumeric(vals[i]) }
        IN  IF months = {} \/ nums = {}
            THEN DOMAIN cc.out = {}
            ELSE LET first == CHOOSE i \in months : \A j \in months : i <= j
                 IN  /\ DOMAIN cc.out = { MonthNamed(vals[first]) }
                     /\ \E i \in nums :
                          /\ cc.out[MonthNamed(vals[first])] = NumericOf(vals[i])
                          /\ \A j \in nums :
                               Magnitude(NumericOf(vals[j])) <= Magnitude(NumericOf(vals[i]))

\* C27: a row of two values, one month token (YYYY-MM, YYYY-MM-DD or YYYYMM,
\* the last as a number or as a digit string) and one cost number that is no
\* month token, yields that cost as the total of the month.
C27_MonthTokenIsNotCost ==
    (cc.pc = "parsed" /\ cc.row.t = "list" /\ Len(cc.row.vals) = 2) =>
        \A m, c \in 1..2 :
            (/\ m # c
             /\ IsMonthForm(cc.row.vals[m])
             /\ ~IsMonthForm(cc.row.vals[c])
             /\ cc.row.vals[c].t \in { "int", "float" })
            => /\ DOMAIN cc.out = { MonthNamed(cc.row.vals[m]) }
               /\ cc.out[MonthNamed(cc.row.vals[m])] = NumericOf(cc.row.vals[c])


\* C28: the public_allowed_accounts of the storage summary is the number of
\* returned account rows that the report labels PublicAllowed.
C28_PublicAllowedMatchesReport ==
    (cc.pc = "called" /\ ~cc.out.raised) =>
        cc.out.value.summary.public_allowed_accounts =
            Cardinality({ i \in 1..Len(cc.out.value.accounts) :
                            exposure_of(cc.out.value.accounts[i]) = "PublicAllowed" })


\* C29: in the result run_audit returns, summary.vnets and
\* summary.resource_groups are not null and are the counts the network and
\* resource-group collectors computed, not zero for the non-empty estate, and
\* the summary lines of the two report sections show the same counts.
C29_SummaryCounts ==
    \A r \in Runs :
        locals[r].results # NoValue =>
            /\ locals[r].results.summary.vnets # PyNone
            /\ locals[r].results.summary.resource_groups # PyNone
            /\ locals[r].results.summary.vnets = locals[r].network.summary.counts.vnets
            /\ locals[r].results.summary.resource_groups = locals[r].rg.summary.total_rgs
            /\ locals[r].results.summary.vnets > 0
            /\ locals[r].results.summary.resource_groups > 0
            /\ RenderedVnetCount(locals[r].network) = locals[r].network.summary.counts.vnets
            /\ RenderedRgCount(locals[r].rg) = locals[r].rg.summary.total_rgs

====
